---- MODULE Spec2Model ----
(***************************************************************************)
(* Model of the scymol backend job pipeline (JobRunner, LammpsStages), the *)
(* trajectory hand-off between stages, the front-end observer of a running *)
(* job (BackendThread, RunningProcessDialog, calculate_progress), the      *)
(* construction and scoring of a Mixture, the standard builders that fill  *)
(* the script of a stage, the choice of a job id, the placement of the     *)
(* molecules of a trial on Sobol points, and concurrent job submissions.   *)
(***************************************************************************)
EXTENDS Integers, Sequences, FiniteSets, TLC

VARIABLES
    inputs,                    \* backend/inputs.py as read by the backend
    pc,                        \* position of the backend process in main.py
    trial_i,                   \* JobRunner.trial_i
    nbr_of_mixtures_accepted,  \* JobRunner.nbr_of_mixtures_accepted
    stage_nbr,                 \* enumerate() index of generate_and_run_lammps
    lammps_stage,              \* the LammpsStages object of the current stage
    previous_lammps_stage,     \* deep copy of the last completed stage
    sim,                       \* the simulator subprocess of the current stage
    fs,                        \* output/<job_id>/ on disk
    exit,                      \* exit status of the backend process
    trace,                     \* history: the steps the pipeline has taken
    traj_frames,               \* history: the frames the simulator has dumped
    traj_file,                 \* the lines of a <stage>.<substage>_*.lammpstrj
    last_file,                 \* the lines of last.lammpstrj
    traj_pc,                   \* "dumping", then "written" or "raised"
    process,                   \* BackendThread.process: "None" or "Popen"
    proc,                      \* the backend process as the system sees it
    thread_pc,                 \* position of BackendThread.run
    finished,                  \* a finished_signal queued for the GUI thread
    term,                      \* position of BackendThread.terminate_process
    dialog,                    \* the fields of the RunningProcessDialog
    molecules_dictionary,      \* inputs.molecules_dictionary, in its order
    mixture,                   \* the outcome of Mixture()
    mix_valid,                 \* the outcome of validate_molecules
    mix_pc,                    \* "new", "validated", "rejected", "constructed",
                               \* then "scored"
    potential_energy_limit,    \* inputs.potential_energy_limit
    potential_energy,          \* Mixture.potential_energy
    mix_accepted,              \* Mixture.accepted
    stage_dict,                \* the stage dictionary given to call_methods
    builder_stage,             \* the LammpsStages instance call_methods runs on
    lammps_commands,           \* LammpsCommands.script of that instance
    builder_calls,             \* history: one record per method call_methods made
    builder_error,             \* the exception call_methods raised, if any
    builder_pc,                \* "calling", then "written", "run" or "raised"
    dict_of_variables,         \* the module-level dict_of_variables
    stage_list,                \* inputs.lammps_stages_and_methods of the builders
    run_command,               \* inputs.run_command
    script_files,              \* history: the script files written
    executed,                  \* history: the commands given to subprocess.run
    prog_directory,            \* os.listdir(directory) of calculate_progress
    prog_list,                 \* the list_of_progress it is given
    progress,                  \* what the call returned or raised
    output_entries,            \* os.listdir(output): the names of its entries
    job_id,                    \* BackendConnector.job_id
    job_ids,                   \* history: the ids assigned so far
    nbr_of_mols,               \* Mixture.nbr_of_mols
    box_dims,                  \* the box_dims given to the placement of a trial
    layer_offset,              \* inputs.layer_offset
    sobol_skip,                \* the first index of the installed sobol_seq
    sobol,                     \* Mixture.sobol_x, sobol_y, sobol_z
    sampler_calls,             \* history: the calls of the static sampler
    placements,                \* history: the points of every trial
    place_pc,                  \* position of the trial loop of the placement
    submissions,               \* the jobs submitted by the front ends
    dir_ops                    \* history: what the backends did to job directories

jobVars == <<inputs, pc, trial_i, nbr_of_mixtures_accepted, stage_nbr,
             lammps_stage, previous_lammps_stage, sim, fs, exit, trace>>

trajVars == <<traj_frames, traj_file, last_file, traj_pc>>

guiVars == <<process, proc, thread_pc, finished, term, dialog>>

mixVars == <<molecules_dictionary, mixture, mix_valid, mix_pc,
             potential_energy_limit, potential_energy, mix_accepted>>

buildVars == <<stage_dict, builder_stage, lammps_commands, builder_calls,
               builder_error, builder_pc, dict_of_variables, stage_list,
               run_command, script_files, executed>>

progVars == <<prog_directory, prog_list, progress>>

idVars == <<output_entries, job_id, job_ids>>

placeVars == <<nbr_of_mols, box_dims, layer_offset, sobol_skip, sobol,
               sampler_calls, placements, place_pc>>

raceVars == <<submissions, dir_ops>>

extraVars == <<placeVars, raceVars>>

laterVars == <<buildVars, progVars, idVars, extraVars>>

nonJobVars == <<trajVars, guiVars, mixVars, laterVars>>

vars == <<jobVars, nonJobVars>>

----------------------------------------------------------------------------
(* Bounds of the model *)
MaxTrials  == 3
MaxNeeded  == 2
MaxStages  == 2
MaxFrames  == 3
MaxAtoms   == 3
GuiTrials  == 2
MaxSpecies == 2
MaxCount   == 2

----------------------------------------------------------------------------
(* Names *)
MixtureMode  == "mixture+pysimm+lammps"
PreviousMode == "from_previous_lammps"

M_title == "add_simulation_title"
M_echo  == "add_echo"
M_read  == "add_read_dump"
M_init  == "standard_initialization_substage"
M_min   == "standard_minimization_substage"
M_vel   == "standard_velocities_stage"
M_nvt   == "standard_nvt_stage"
M_npt   == "standard_npt_stage"
M_nve   == "standard_nve_stage"
M_def   == "standard_uniaxial_deformation_stage"

\* "<stage>.<substage>_<type>" : the stem of an output file of a substage
Stem(s, k, t) == [stage |-> s, substage |-> k, type |-> t]
None == Stem(0, 0, "None")

\* Option values are sequences of length 0 or 1
Nothing == <<>>
Some(x) == <<x>>

Ev(e, a, b) == [ev |-> e, a |-> a, b |-> b]

----------------------------------------------------------------------------
(* LammpsStages and the standard builders                                  *)

\* An output directive of the script: the file a dump or fix ave/time names.
\* Directives that name no output file are not kept in the model's script.
Dump(stem)    == [cmd |-> "dump", stem |-> stem, ext |-> "lammpstrj"]
AveTime(stem) == [cmd |-> "fix ave/time", stem |-> stem, ext |-> "instantaneous.out"]

LammpsStages_init(nbr) ==
    [stage_nbr               |-> nbr,
     substage_nbr            |-> 1,
     last_lammpstrj_file     |-> None,
     last_instantaneous_file |-> None,
     script                  |-> <<>>,
     lammps_input_script_file |-> 0,
     error                   |-> "none"]

\* initialization and velocities emit no dump; they only advance the counter
StandardInitializationSubstage_run(st) ==
    [st EXCEPT !.substage_nbr = @ + 1]

\* a velocities builder that leaves the counter alone
StandardVelocitiesStage_run_without_increment(st) == st

StandardVelocitiesStage_run(st) ==
    [st EXCEPT !.substage_nbr = @ + 1]

\* the minimization keeps the dump file name on the substage object itself;
\* the stage's last_lammpstrj_file is not assigned
StandardMinimizationSubstage_run(st) ==
    LET own == Stem(st.stage_nbr, st.substage_nbr, "minimization")
    IN  [st EXCEPT !.script = Append(@, Dump(own)),
                   !.substage_nbr = @ + 1]

\* NVT, NPT, NVE and uniaxial deformation share one shape: the two pointers
\* are set first, then fix ave/time and dump name them, then the counter moves
DynamicsStage_run(st, type) ==
    LET stem == Stem(st.stage_nbr, st.substage_nbr, type)
    IN  [st EXCEPT !.last_lammpstrj_file = stem,
                   !.last_instantaneous_file = stem,
                   !.script = @ \o <<AveTime(stem), Dump(stem)>>,
                   !.substage_nbr = @ + 1]

StandardNvtStage_run(st) == DynamicsStage_run(st, "nvt")
StandardNptStage_run(st) == DynamicsStage_run(st, "npt")
StandardNveStage_run(st) == DynamicsStage_run(st, "nve")
StandardDeformationStage_run(st) == DynamicsStage_run(st, "uniaxialcompression")

PlainCommands == {M_title, M_echo, M_read}

\* getattr(self, name), then getattr(self.lammps_commands_instance, name),
\* then AttributeError
method_to_call(st, name) ==
    CASE name = M_init -> StandardInitializationSubstage_run(st)
      [] name = M_min  -> StandardMinimizationSubstage_run(st)
      [] name = M_vel  -> StandardVelocitiesStage_run(st)
      [] name = M_nvt  -> StandardNvtStage_run(st)
      [] name = M_npt  -> StandardNptStage_run(st)
      [] name = M_nve  -> StandardNveStage_run(st)
      [] name = M_def  -> StandardDeformationStage_run(st)
      [] name \in PlainCommands -> st
      [] OTHER -> [st EXCEPT !.error = "AttributeError"]

RECURSIVE apply_methods(_, _)
apply_methods(st, methods) ==
    IF methods = <<>> \/ st.error # "none" THEN st
    ELSE apply_methods(method_to_call(st, Head(methods)), Tail(methods))

\* call_methods: every method in order, then write_script(<stage_name>.in)
call_methods(st, stage) ==
    LET done == apply_methods(st, stage.methods)
    IN  IF done.error # "none" THEN done
        ELSE [done EXCEPT !.lammps_input_script_file = stage.stage]


----------------------------------------------------------------------------
(* inputs.py                                                               *)

\* the substages a user assembles after the initialization of a stage
StageBodies ==
    { <<M_min>>, <<M_nvt>>, <<M_nvt, M_min>>, <<M_vel, M_npt, M_nve>>, <<M_def>> }

\* translate_simulation_inputs_to_lammps_stages: title and echo first; the
\* last configuration is read back after the initialization of stage >= 2
\* (or of every stage when the job starts from a previous LAMMPS run)
StageDict(n, mode, body) ==
    [stage   |-> n,
     methods |-> <<M_title, M_echo, M_init>>
                 \o (IF n >= 2 \/ mode = PreviousMode THEN <<M_read>> ELSE <<>>)
                 \o body]

StageLists(mode) ==
    UNION { { [n \in 1..len |-> StageDict(n, mode, bodies[n])] :
                bodies \in [1..len -> StageBodies] } : len \in 1..MaxStages }

ReturnCodes == {0, 1, 2}
StderrTexts == {"", "ERROR: Lost atoms"}

Inputs ==
    UNION { [run_mode                  : {mode},
             number_of_trials          : 1..MaxTrials,
             number_of_mixtures_needed : 1..MaxNeeded,
             lammps_stages_and_methods : StageLists(mode)] :
            mode \in {MixtureMode, PreviousMode} }

----------------------------------------------------------------------------
(* The job directory output/<job_id>/                                      *)

OutFile(mix, directive) == [mix |-> mix, stem |-> directive.stem, ext |-> directive.ext]
PlainFile(mix, name)    == [mix |-> mix, stem |-> Stem(0, 0, name), ext |-> ""]

EmptyDir == [job_dir |-> TRUE, log |-> FALSE, mixtures |-> {}, files |-> {}, last |-> {}]
NoDir    == [job_dir |-> FALSE, log |-> FALSE, mixtures |-> {}, files |-> {}, last |-> {}]
\* the directory of an earlier job that ran under the same id
OldDir   == [job_dir |-> TRUE, log |-> TRUE, mixtures |-> {1},
             files |-> {PlainFile(1, "structure.data")}, last |-> {}]

\* last.lammpstrj of a mixture directory: the trajectory file its frame is from
WriteLast(dir, mix, src) ==
    [dir EXCEPT !.files = @ \cup {PlainFile(mix, "last.lammpstrj")},
                !.last  = {l \in @ : l.mix # mix} \cup {[mix |-> mix, src |-> src]}]

Running == [code |-> 0, type |-> "none", returncode |-> 0, stderr |-> "", final_log |-> ""]
SuccessLog == "Program run terminated successfully"

NoSim == [state |-> "idle", written |-> 0, returncode |-> 0, stderr |-> ""]

----------------------------------------------------------------------------
(* The backend process: main.py                                            *)

\* a backend started from a shell, without the GUI
Standalone == [state |-> "standalone", signals |-> {}, retcode |-> 0]

NoTerm == [pc |-> "idle", polls |-> 0, by |-> "none"]

NoProgress == [outcome |-> "none", completed |-> 0, total |-> 0, had_file |-> FALSE]

\* RunningProcessDialog.__init__: the timer is started, nothing is shown yet
NewDialog ==
    [user_terminated |-> FALSE, timer |-> TRUE, button |-> TRUE, visible |-> TRUE,
     label |-> "", code |-> 0, strerror |-> <<>>, reported |-> FALSE,
     current_mixture |-> Nothing, progress |-> NoProgress,
     poll_pc |-> "idle", unhandled |-> "none"]

GuiOff ==
    /\ process = "None"
    /\ proc = Standalone
    /\ thread_pc = "off"
    /\ finished = Nothing
    /\ term = NoTerm
    /\ dialog = [NewDialog EXCEPT !.timer = FALSE, !.button = FALSE, !.visible = FALSE]

NoMixture == [raised |-> "none", molecules |-> <<>>]

MixOff ==
    /\ molecules_dictionary = <<>>
    /\ mixture = NoMixture
    /\ mix_valid = ""
    /\ mix_pc = "off"
    /\ potential_energy_limit = 0
    /\ potential_energy = 0
    /\ mix_accepted = FALSE

TrajOff ==
    traj_frames = <<>> /\ traj_file = <<>> /\ last_file = <<>> /\ traj_pc = "off"

BuildOff ==
    /\ stage_dict = [stage |-> 0, methods |-> <<>>]
    /\ builder_stage = LammpsStages_init(0)
    /\ lammps_commands = <<>>
    /\ builder_calls = <<>>
    /\ builder_error = Nothing
    /\ builder_pc = "off"
    /\ dict_of_variables = <<>>
    /\ stage_list = <<>>
    /\ run_command = <<>>
    /\ script_files = <<>>
    /\ executed = <<>>

ProgOff ==
    prog_directory = {} /\ prog_list = <<>> /\ progress = NoProgress

IdOff ==
    output_entries = {} /\ job_id = Nothing /\ job_ids = <<>>

PlaceOff ==
    /\ nbr_of_mols = 0
    /\ box_dims = <<>>
    /\ layer_offset = 0
    /\ sobol_skip = 0
    /\ sobol = <<>>
    /\ sampler_calls = <<>>
    /\ placements = <<>>
    /\ place_pc = "off"

RaceOff ==
    submissions = <<>> /\ dir_ops = <<>>

ExtraOff == PlaceOff /\ RaceOff

LaterOff == BuildOff /\ ProgOff /\ IdOff /\ ExtraOff

\* the backend process executes Python code only while it is alive; main.py
\* installs no signal handler, so a SIGTERM or SIGKILL sent to its process
\* group ends it without another statement being executed
BackendAlive == proc.state \in {"standalone", "alive"} /\ proc.signals = {}

\* an exception that reaches the top level: only RuntimeError is re-raised
\* by the __main__ guard, either way the interpreter exits with code 1
Crash(type, returncode, stderr) ==
    /\ pc' = "exited"
    /\ exit' = [code |-> 1, type |-> type, returncode |-> returncode,
                stderr |-> stderr, final_log |-> exit.final_log]

Log(e) == trace' = Append(trace, e)

Stages == inputs.lammps_stages_and_methods

\* JobRunner.__init__: os.makedirs(output/<id>, exist_ok=False), log file,
\* counters; then main() logs the initialisation
JobRunner_init ==
    /\ BackendAlive /\ pc = "main"
    /\ IF fs.job_dir
       THEN /\ Crash("FileExistsError", 0, "")
            /\ Log(Ev("raise", 0, 0))
            /\ UNCHANGED <<trial_i, nbr_of_mixtures_accepted, fs>>
       ELSE /\ fs' = [fs EXCEPT !.job_dir = TRUE, !.log = TRUE]
            /\ nbr_of_mixtures_accepted' = 0
            /\ trial_i' = 1
            /\ pc' = "run"
            /\ Log(Ev("init", 0, 0))
            /\ UNCHANGED exit
    /\ UNCHANGED <<inputs, stage_nbr, lammps_stage, previous_lammps_stage, sim>>
    /\ UNCHANGED nonJobVars

\* JobRunner.run up to the call of run_trials: clear_folder, first log line
JobRunner_run ==
    /\ BackendAlive /\ pc = "run"
    /\ fs' = [EmptyDir EXCEPT !.log = TRUE]
    /\ pc' = "run_trials"
    /\ Log(Ev("clear_folder", 0, 0))
    /\ UNCHANGED <<inputs, trial_i, nbr_of_mixtures_accepted, stage_nbr,
                   lammps_stage, previous_lammps_stage, sim, exit>>
    /\ UNCHANGED nonJobVars

\* a mixture directory named after the mixture that comes next
create_directories_for_the_next(dir, n) == [dir EXCEPT !.mixtures = @ \cup {n + 1}]

\* JobRunner.create_directories
create_directories(dir, n) == [dir EXCEPT !.mixtures = @ \cup {n}]

\* while self.trial_i <= inputs.number_of_trials
run_trials_condition_offbyone == trial_i <= inputs.number_of_trials + 1
run_trials_condition == trial_i <= inputs.number_of_trials

\* if self.nbr_of_mixtures_accepted == inputs.number_of_mixtures_needed: break
run_trials_break_never == FALSE
run_trials_break == nbr_of_mixtures_accepted = inputs.number_of_mixtures_needed

\* the while condition of run_trials is false: run_trials returns and run()
\* writes its last log line; the interpreter exits normally
run_trials_exhausted ==
    /\ BackendAlive /\ pc = "run_trials"
    /\ ~run_trials_condition
    /\ pc' = "exited"
    /\ exit' = [Running EXCEPT !.final_log = SuccessLog]
    /\ Log(Ev("end", 0, 0))
    /\ UNCHANGED <<inputs, trial_i, nbr_of_mixtures_accepted, stage_nbr,
                   lammps_stage, previous_lammps_stage, sim, fs>>
    /\ UNCHANGED nonJobVars

\* one iteration of run_trials in mode 'mixture+pysimm+lammps', up to the
\* call of generate_pysimm: Mixture(), generate_mixture(mixture)
run_trials_mixture(accepted) ==
    /\ BackendAlive /\ pc = "run_trials"
    /\ run_trials_condition
    /\ inputs.run_mode = MixtureMode
    /\ IF accepted
       THEN /\ nbr_of_mixtures_accepted' = nbr_of_mixtures_accepted + 1
            /\ trial_i' = 0
            /\ fs' = create_directories(fs, nbr_of_mixtures_accepted + 1)
            /\ pc' = "generate_pysimm"
            /\ trace' = trace \o <<Ev("Mixture", nbr_of_mixtures_accepted + 1, trial_i),
                                   Ev("accepted", nbr_of_mixtures_accepted + 1, trial_i),
                                   Ev("mkdir", nbr_of_mixtures_accepted + 1, 0)>>
       ELSE /\ trial_i' = trial_i + 1
            /\ trace' = trace \o <<Ev("Mixture", nbr_of_mixtures_accepted + 1, trial_i),
                                   Ev("rejected", nbr_of_mixtures_accepted + 1, trial_i)>>
            /\ UNCHANGED <<nbr_of_mixtures_accepted, fs, pc>>
    /\ UNCHANGED <<inputs, stage_nbr, lammps_stage, previous_lammps_stage, sim, exit>>
    /\ UNCHANGED nonJobVars

\* one iteration of run_trials in mode 'from_previous_lammps', up to the call
\* of generate_and_run_lammps: the two files are copied from temp_files
run_trials_previous ==
    /\ BackendAlive /\ pc = "run_trials"
    /\ run_trials_condition
    /\ inputs.run_mode = PreviousMode
    /\ LET n == nbr_of_mixtures_accepted + 1
           d == create_directories(fs, n)
       IN  /\ nbr_of_mixtures_accepted' = n
           /\ fs' = WriteLast([d EXCEPT !.files = @ \cup {PlainFile(n, "structure.data")}],
                              n, Stem(0, 0, "temp_files"))
           /\ trace' = trace \o <<Ev("mkdir", n, 0), Ev("copy", n, 0)>>
    /\ pc' = "stage_loop"
    /\ stage_nbr' = 0
    /\ previous_lammps_stage' = Nothing
    /\ UNCHANGED <<inputs, trial_i, lammps_stage, sim, exit>>
    /\ UNCHANGED nonJobVars

\* Mixture.export_molecules: a file <molecule.name>.mol for each molecule in
\* mixture_<n>/all; the model keeps one file for them all
export_molecules(dir, n) ==
    [dir EXCEPT !.files = @ \cup {PlainFile(n, "all/<name>.mol")}]

\* JobRunner.generate_pysimm: PysimmSystem writes every molecule in turn to
\* the one file temp.mol of the mixture directory and reads it back, then
\* the topology input structure.data is built there; export_molecules is
\* not called. Then generate_and_run_lammps starts its loop
generate_pysimm ==
    /\ BackendAlive /\ pc = "generate_pysimm"
    /\ fs' = [fs EXCEPT !.files = @ \cup
                {PlainFile(nbr_of_mixtures_accepted, "temp.mol"),
                 PlainFile(nbr_of_mixtures_accepted, "structure.data")}]
    /\ pc' = "stage_loop"
    /\ stage_nbr' = 0
    /\ previous_lammps_stage' = Nothing
    /\ Log(Ev("structure.data", nbr_of_mixtures_accepted, 0))
    /\ UNCHANGED <<inputs, trial_i, nbr_of_mixtures_accepted, lammps_stage, sim, exit>>
    /\ UNCHANGED nonJobVars

\* the file a stage's pointer names exists once the simulator has written it
OnDisk(dir, mix, stem, ext) == [mix |-> mix, stem |-> stem, ext |-> ext] \in dir.files

\* LammpsStages.write_last_trajectory: "ok" or the exception it raises
write_last_trajectory_result(st, dir, mix) ==
    IF st.last_lammpstrj_file = None THEN "FileNotFoundError"
    ELSE IF ~OnDisk(dir, mix, st.last_lammpstrj_file, "lammpstrj") THEN "FileNotFoundError"
    ELSE "ok"

\* LammpsStages.parse_last_trajectory: the trajectory is read again and, for a
\* pointer that does not name a minimization, the instantaneous file as well
parse_last_trajectory_result(st, dir, mix) ==
    IF st.last_lammpstrj_file = None THEN "FileNotFoundError"
    ELSE IF ~OnDisk(dir, mix, st.last_lammpstrj_file, "lammpstrj") THEN "FileNotFoundError"
    ELSE IF st.last_lammpstrj_file.type = "minimization" THEN "ok"
    ELSE IF ~OnDisk(dir, mix, st.last_instantaneous_file, "instantaneous.out")
         THEN "FileNotFoundError"
    ELSE "ok"

\* head of the stage loop for a stage that has a predecessor:
\* previous_lammps_stage.write_last_trajectory(), .parse_last_trajectory()
stage_handoff ==
    /\ BackendAlive /\ pc = "stage_loop"
    /\ stage_nbr < Len(Stages)
    /\ previous_lammps_stage # Nothing
    /\ LET prev == previous_lammps_stage[1]
           mix  == nbr_of_mixtures_accepted
           w    == write_last_trajectory_result(prev, fs, mix)
           r    == parse_last_trajectory_result(prev, fs, mix)
       IN  IF w # "ok"
           THEN /\ Crash(w, 0, "")
                /\ Log(Ev("raise", stage_nbr, 0))
                /\ UNCHANGED fs
           ELSE /\ fs' = WriteLast(fs, mix, prev.last_lammpstrj_file)
                /\ IF r # "ok"
                   THEN /\ Crash(r, 0, "")
                        /\ Log(Ev("raise", stage_nbr, 0))
                   ELSE /\ pc' = "call_methods"
                        /\ Log(Ev("last.lammpstrj", prev.stage_nbr,
                                  prev.last_lammpstrj_file.substage))
                        /\ UNCHANGED exit
    /\ UNCHANGED <<inputs, trial_i, nbr_of_mixtures_accepted, stage_nbr,
                   lammps_stage, previous_lammps_stage, sim>>
    /\ UNCHANGED nonJobVars

\* LammpsStages(stage_nbr + 1).call_methods(stage): the script of the stage is
\* generated and written to <stage name>.in
stage_script ==
    /\ BackendAlive
    /\ \/ pc = "call_methods"
       \/ pc = "stage_loop" /\ stage_nbr < Len(Stages) /\ previous_lammps_stage = Nothing
    /\ LET stage == Stages[stage_nbr + 1]
           st    == call_methods(LammpsStages_init(stage_nbr + 1), stage)
       IN  /\ lammps_stage' = Some(st)
           /\ IF st.error # "none"
              THEN /\ Crash(st.error, 0, "")
                   /\ Log(Ev("raise", stage_nbr + 1, 0))
                   /\ UNCHANGED fs
              ELSE /\ fs' = [fs EXCEPT !.files = @ \cup
                               {PlainFile(nbr_of_mixtures_accepted, "stage.in")}]
                   /\ pc' = "lammps_run"
                   /\ Log(Ev("script", stage_nbr + 1, 0))
                   /\ UNCHANGED exit
    /\ UNCHANGED <<inputs, trial_i, nbr_of_mixtures_accepted, stage_nbr,
                   previous_lammps_stage, sim>>
    /\ UNCHANGED nonJobVars

\* LammpsStages.run: subprocess.run(cmd) starts the simulator and blocks
LammpsStages_run_start ==
    /\ BackendAlive /\ pc = "lammps_run"
    /\ sim' = [NoSim EXCEPT !.state = "running"]
    /\ pc' = "lammps_wait"
    /\ Log(Ev("exec", stage_nbr + 1, 0))
    /\ UNCHANGED <<inputs, trial_i, nbr_of_mixtures_accepted, stage_nbr,
                   lammps_stage, previous_lammps_stage, fs, exit>>
    /\ UNCHANGED nonJobVars

\* the simulator reaches the next output directive of the script and creates
\* the file it names
Simulator_writes ==
    /\ sim.state = "running"
    /\ proc.signals = {}          \* the simulator is in the signalled group
    /\ sim.written < Len(lammps_stage[1].script)
    /\ sim' = [sim EXCEPT !.written = @ + 1]
    /\ fs' = [fs EXCEPT !.files = @ \cup
                {OutFile(nbr_of_mixtures_accepted, lammps_stage[1].script[sim.written + 1])}]
    /\ UNCHANGED <<inputs, pc, trial_i, nbr_of_mixtures_accepted, stage_nbr,
                   lammps_stage, previous_lammps_stage, exit, trace>>
    /\ UNCHANGED nonJobVars

\* if proc.returncode != 0: raise Exception(return code, error message)
LammpsStages_run_raises_never(returncode) == FALSE
LammpsStages_run_raises(returncode) == returncode # 0

\* LammpsStages.run after the simulator has exited; on success the loop body
\* ends with previous_lammps_stage = copy.deepcopy(lammps_stage)
LammpsStages_run_end(returncode, stderr) ==
    /\ BackendAlive /\ pc = "lammps_wait"
    /\ sim.state = "running"
    /\ returncode = 0 => sim.written = Len(lammps_stage[1].script)
    /\ sim' = [sim EXCEPT !.state = "exited", !.returncode = returncode, !.stderr = stderr]
    /\ IF LammpsStages_run_raises(returncode)
       THEN /\ Crash("Exception", returncode, stderr)
            /\ Log(Ev("exit", stage_nbr + 1, returncode))
            /\ UNCHANGED <<stage_nbr, previous_lammps_stage>>
       ELSE /\ previous_lammps_stage' = lammps_stage
            /\ stage_nbr' = stage_nbr + 1
            /\ pc' = "stage_loop"
            /\ Log(Ev("exit", stage_nbr + 1, returncode))
            /\ UNCHANGED exit
    /\ UNCHANGED <<inputs, trial_i, nbr_of_mixtures_accepted, lammps_stage, fs>>
    /\ UNCHANGED nonJobVars

\* generate_and_run_lammps has returned: the break test of run_trials, the
\* log line of the trial and the increment of the trial counter
run_trials_after_stages ==
    /\ BackendAlive /\ pc = "stage_loop"
    /\ stage_nbr = Len(Stages)
    /\ IF inputs.run_mode = MixtureMode /\ run_trials_break
       THEN /\ pc' = "exited"
            /\ exit' = [Running EXCEPT !.final_log = SuccessLog]
            /\ Log(Ev("end", 0, 0))
            /\ UNCHANGED trial_i
       ELSE /\ trial_i' = trial_i + 1
            /\ pc' = "run_trials"
            /\ Log(Ev("trial_done", nbr_of_mixtures_accepted, 0))
            /\ UNCHANGED exit
    /\ UNCHANGED <<inputs, nbr_of_mixtures_accepted, stage_nbr, lammps_stage,
                   previous_lammps_stage, sim, fs>>
    /\ UNCHANGED nonJobVars

----------------------------------------------------------------------------
InitJob ==
    /\ inputs \in Inputs
    /\ pc = "main"
    /\ trial_i = 0
    /\ nbr_of_mixtures_accepted = 0
    /\ stage_nbr = 0
    /\ lammps_stage = Nothing
    /\ previous_lammps_stage = Nothing
    /\ sim = NoSim
    /\ fs \in {NoDir, OldDir}
    /\ exit = Running
    /\ trace = <<>>
    /\ TrajOff
    /\ GuiOff
    /\ MixOff
    /\ LaterOff

NextJob ==
    \/ JobRunner_init
    \/ JobRunner_run
    \/ run_trials_exhausted
    \/ \E accepted \in BOOLEAN : run_trials_mixture(accepted)
    \/ run_trials_previous
    \/ generate_pysimm
    \/ stage_handoff
    \/ stage_script
    \/ LammpsStages_run_start
    \/ Simulator_writes
    \/ \E rc \in ReturnCodes, err \in StderrTexts : LammpsStages_run_end(rc, err)
    \/ run_trials_after_stages

Init == InitJob
Next == NextJob
Spec == Init /\ [][Next]_vars

----------------------------------------------------------------------------
(* Properties of the trial loop and of the stage loop                      *)

Events(e)     == {i \in DOMAIN trace : trace[i].ev = e}
Count(e)      == Cardinality(Events(e))
StageEvents   == Events("last.lammpstrj") \cup Events("script") \cup Events("exec")
InMixtureMode == inputs.run_mode = MixtureMode

\* the trial loop has ended because the while condition became false while
\* fewer mixtures than needed were accepted
BudgetExhausted ==
    /\ InMixtureMode
    /\ pc = "exited"
    /\ exit.type = "none"
    /\ nbr_of_mixtures_accepted < inputs.number_of_mixtures_needed

\* C1: when the attempt budget is exhausted before the needed number of
\* mixtures is accepted, the job ends in an explicit failure: its exit code
\* and final log line are not those of a successful completion.
C1_ExhaustionIsExplicitFailure ==
    BudgetExhausted => ~(exit.code = 0 /\ exit.final_log = SuccessLog)

\* C2 as stated: over the whole job the number of Mixture objects constructed
\* never exceeds number_of_trials.
C2_TotalTrialsWithinBudget ==
    InMixtureMode => Count("Mixture") <= inputs.number_of_trials

\* the trials attempted while mixture number n was being sought
TrialsFor(n) == {i \in Events("Mixture") : trace[i].a = n}

\* C2 amended: the budget is per mixture. For each mixture sought the number
\* of trials attempted never exceeds number_of_trials, so the total never
\* exceeds number_of_mixtures_needed * number_of_trials.
C2_TrialsPerMixtureWithinBudget ==
    InMixtureMode =>
        /\ \A n \in 1..(inputs.number_of_mixtures_needed + 1) :
               Cardinality(TrialsFor(n)) <= inputs.number_of_trials
        /\ Count("Mixture") <= inputs.number_of_mixtures_needed * inputs.number_of_trials

\* a job that used the whole budget of one mixture and more trials in total
\* than number_of_trials
C2_Witness ==
    /\ InMixtureMode
    /\ Count("Mixture") > inputs.number_of_trials
    /\ \E n \in 1..inputs.number_of_mixtures_needed :
           Cardinality(TrialsFor(n)) = inputs.number_of_trials

\* C3: with one mixture needed, if the first k trials are rejected and the
\* next is accepted, exactly k+1 trials are attempted (none after the
\* accepting one) and no stage is handed off, scripted or executed before the
\* accepting trial.
C3_RetryThenStages ==
    (InMixtureMode /\ inputs.number_of_mixtures_needed = 1) =>
        /\ \A i \in StageEvents : \E j \in Events("accepted") : j < i
        /\ \A j \in Events("accepted") :
               /\ \A i \in Events("Mixture") : i < j
               /\ Count("Mixture") = Count("rejected") + 1
               /\ \A i \in Events("rejected") : i < j

C3_Witness ==
    /\ InMixtureMode /\ inputs.number_of_mixtures_needed = 1
    /\ pc = "exited" /\ exit.code = 0
    /\ Count("rejected") = 2 /\ Count("Mixture") = 3
    /\ Count("exec") = Len(Stages)

\* C4: a simulator exit with a non-zero code is the last step of the job: the
\* backend ends with an error that carries that code and the captured
\* standard-error text, and no hand-off, script, simulator run or trial
\* follows it.
C4_NonZeroExitAbortsJob ==
    \A i \in Events("exit") :
        trace[i].b # 0 =>
            /\ i = Len(trace)
            /\ pc = "exited"
            /\ exit.code # 0
            /\ exit.type = "Exception"
            /\ exit.returncode = trace[i].b
            /\ exit.returncode = sim.returncode
            /\ exit.stderr = sim.stderr

\* the first stage succeeded and the second failed with code 2 and a message
C4_Witness ==
    /\ pc = "exited"
    /\ Count("exit") = 2
    /\ sim.returncode = 2 /\ sim.stderr # ""
    /\ exit.returncode = 2

\* the substage of the last dump directive of a script (0 if there is none)
RECURSIVE FinalDump(_)
FinalDump(script) ==
    IF script = <<>> THEN 0
    ELSE IF script[Len(script)].cmd = "dump" THEN script[Len(script)].stem.substage
    ELSE FinalDump(SubSeq(script, 1, Len(script) - 1))

\* the script the builders generate for stage n of the configured list
ScriptOf(n) == call_methods(LammpsStages_init(n), Stages[n]).script

\* C5: the stages of a mixture run in list order, and the script of a stage
\* i > 1 is generated and run only after stage i-1 exited with code 0 and
\* last.lammpstrj was rewritten from the final trajectory frame of stage i-1.
C5_StagesInOrderAfterHandoff ==
    InMixtureMode =>
        \A i \in Events("script") \cup Events("exec") :
            trace[i].a > 1 =>
                \E j, h \in 1..(i - 1) :
                    /\ j < h
                    /\ trace[j] = Ev("exit", trace[i].a - 1, 0)
                    /\ trace[h] = Ev("last.lammpstrj", trace[i].a - 1,
                                     FinalDump(ScriptOf(trace[i].a - 1)))
                    /\ \A m \in (h + 1)..(i - 1) : trace[m].ev = "script"

----------------------------------------------------------------------------
(* The trajectory hand-off: get_last_trajectory, write_last_trajectory      *)

\* One frame of a dump file: 9 header lines, then one line per atom. The
\* box bounds and the atom coordinates differ from frame to frame.
FrameHeader(f) ==
    << "ITEM: TIMESTEP",
       ToString(f.timestep),
       "ITEM: NUMBER OF ATOMS",
       ToString(f.atoms),
       "ITEM: BOX BOUNDS pp pp pp",
       "0.0 " \o ToString(10 + f.index),
       "0.0 " \o ToString(20 + f.index),
       "0.0 " \o ToString(30 + f.index),
       "ITEM: ATOMS id type x y z" >>

FrameData(f) ==
    [a \in 1..f.atoms |-> ToString(a) \o " 1 " \o ToString(f.index) \o ".5 0.0 0.0"]

FrameLines(f) == FrameHeader(f) \o FrameData(f)

\* "TIMESTEP" in line: of the lines of a dump file only the marker has it
HasTimestep(line) == line = "ITEM: TIMESTEP"

\* FileReadBackwards: the lines from the end of the file up to and including
\* the first one that has "TIMESTEP", in the order they are read
RECURSIVE read_backwards(_, _)
read_backwards(file, n) ==
    IF n = 0 THEN <<>>
    ELSE IF HasTimestep(file[n]) THEN <<file[n]>>
    ELSE <<file[n]>> \o read_backwards(file, n - 1)

Reverse(seq) == [i \in 1..Len(seq) |-> seq[Len(seq) + 1 - i]]

\* a slice lines[a:b] of a Python list (0-based, end excluded, clipped)
Slice(seq, a, b) ==
    LET hi == IF b < Len(seq) THEN b ELSE Len(seq)
    IN  IF a >= hi THEN <<>> ELSE [i \in 1..(hi - a) |-> seq[a + i]]

\* get_last_trajectory: (header_lines, data_lines)
get_last_trajectory_unreversed(file) ==
    LET lines == read_backwards(file, Len(file))
    IN  [header |-> Slice(lines, 0, 9), data |-> Slice(lines, 9, Len(lines))]

get_last_trajectory(file) ==
    LET lines == Reverse(read_backwards(file, Len(file)))
    IN  [header |-> Slice(lines, 0, 9), data |-> Slice(lines, 9, Len(lines))]

\* write_last_trajectory: header[1] = "0", then "\n".join(header + data);
\* the assignment raises IndexError on a header of fewer than two lines
write_last_trajectory(file) ==
    LET r == get_last_trajectory(file)
    IN  IF Len(r.header) < 2 THEN [raised |-> "IndexError", lines |-> <<>>]
        ELSE [raised |-> "none",
              lines  |-> [r.header EXCEPT ![2] = "0"] \o r.data]

\* the simulator appends one complete frame to the dump file
Simulator_dump_frame(atoms) ==
    /\ traj_pc = "dumping"
    /\ Len(traj_frames) < MaxFrames
    /\ LET f == [index |-> Len(traj_frames) + 1,
                 timestep |-> 1000 * Len(traj_frames),
                 atoms |-> atoms]
       IN  /\ traj_frames' = Append(traj_frames, f)
           /\ traj_file' = traj_file \o FrameLines(f)
    /\ UNCHANGED <<last_file, traj_pc>>
    /\ UNCHANGED <<jobVars, guiVars, mixVars, laterVars>>

\* the simulator has exited; the stage's trajectory is handed off
LammpsStages_write_last_trajectory ==
    /\ traj_pc = "dumping"
    /\ Len(traj_frames) >= 1
    /\ LET w == write_last_trajectory(traj_file)
       IN  /\ last_file' = w.lines
           /\ traj_pc' = IF w.raised = "none" THEN "written" ELSE "raised"
    /\ UNCHANGED <<traj_frames, traj_file>>
    /\ UNCHANGED <<jobVars, guiVars, mixVars, laterVars>>

InitTraj ==
    /\ traj_frames = <<>> /\ traj_file = <<>> /\ last_file = <<>> /\ traj_pc = "dumping"
    /\ inputs = CHOOSE i \in Inputs : TRUE
    /\ pc = "lammps_wait"
    /\ trial_i = 0
    /\ nbr_of_mixtures_accepted = 1
    /\ stage_nbr = 0
    /\ lammps_stage = Nothing
    /\ previous_lammps_stage = Nothing
    /\ sim = NoSim
    /\ fs = EmptyDir
    /\ exit = Running
    /\ trace = <<>>
    /\ GuiOff
    /\ MixOff
    /\ LaterOff

NextTraj ==
    \/ \E atoms \in 0..MaxAtoms : Simulator_dump_frame(atoms)
    \/ LammpsStages_write_last_trajectory

SpecTraj == InitTraj /\ [][NextTraj]_vars

\* C6: for a trajectory file of one or more complete frames, last.lammpstrj
\* is exactly the 9 header lines of the final frame, with the timestep line
\* replaced by "0", followed by all data lines of that frame in file order;
\* no line of an earlier frame is included.
C6_LastFrameExactly ==
    traj_pc \in {"written", "raised"} =>
        LET f == traj_frames[Len(traj_frames)]
        IN  /\ traj_pc = "written"
            /\ Len(last_file) = 9 + f.atoms
            /\ last_file[2] = "0"
            /\ \A i \in (1..9) \ {2} : last_file[i] = FrameHeader(f)[i]
            /\ \A a \in 1..f.atoms : last_file[9 + a] = FrameData(f)[a]

\* the last of several frames, with atoms, was handed off
C6_Witness ==
    /\ traj_pc = "written"
    /\ Len(traj_frames) = MaxFrames
    /\ traj_frames[Len(traj_frames)].atoms = 2
    /\ traj_frames[1].atoms = 1
    /\ traj_frames[Len(traj_frames)].timestep # 0
    /\ Len(last_file) = 11

----------------------------------------------------------------------------
(* The front end: BackendThread and RunningProcessDialog                    *)

jobVarsButTrace == <<inputs, pc, trial_i, nbr_of_mixtures_accepted, stage_nbr,
                     lammps_stage, previous_lammps_stage, sim, fs, exit>>

\* sys.platform: the branch of terminate_process for systems other than win32
Platform == "linux"

\* an exception that leaves a slot unhandled ends the event loop of the GUI
GuiAlive == thread_pc # "off" /\ dialog.unhandled = "none"

\* the GUI thread is not inside a slot
GuiIdle == GuiAlive /\ term.pc = "idle" /\ dialog.poll_pc = "idle"

\* BackendThread.run: subprocess.Popen(command, preexec_fn=os.setsid); a
\* failure to start is reported with code -1
BackendThread_run_Popen(ok) ==
    /\ GuiAlive /\ thread_pc = "start"
    /\ IF ok
       THEN /\ process' = "Popen"
            /\ proc' = [state |-> "alive", signals |-> {}, retcode |-> 0]
            /\ thread_pc' = "communicate"
            /\ UNCHANGED finished
       ELSE /\ finished' = Some([code |-> 0 - 1, message |-> "Process initialization error."])
            /\ thread_pc' = "done"
            /\ UNCHANGED <<process, proc>>
    /\ UNCHANGED <<term, dialog>>
    /\ UNCHANGED <<jobVars, trajVars, mixVars, laterVars>>

\* the interpreter of the backend has finished and the process exits
Backend_exit ==
    /\ pc = "exited" /\ proc.state = "alive" /\ proc.signals = {}
    /\ proc' = [proc EXCEPT !.state = "zombie", !.retcode = exit.code]
    /\ UNCHANGED <<process, thread_pc, finished, term, dialog>>
    /\ UNCHANGED <<jobVars, trajVars, mixVars, laterVars>>

\* a signalled process ends, at some time after the signal was sent
Process_dies(sig) ==
    /\ proc.state = "alive" /\ sig \in proc.signals
    /\ proc' = [proc EXCEPT !.state = "zombie", !.retcode = 0 - sig]
    /\ UNCHANGED <<process, thread_pc, finished, term, dialog>>
    /\ UNCHANGED <<jobVars, trajVars, mixVars, laterVars>>

\* BackendThread.run: communicate() returns once the process has ended and
\* collects it; stderr is not piped, so the message is always the same
BackendThread_run_communicate ==
    /\ GuiAlive /\ thread_pc = "communicate"
    /\ proc.state = "zombie"
    /\ proc' = [proc EXCEPT !.state = "reaped"]
    /\ finished' = Some([code |-> proc.retcode, message |-> "Process finished without errors."])
    /\ thread_pc' = "done"
    /\ UNCHANGED <<process, term, dialog>>
    /\ UNCHANGED <<jobVars, trajVars, mixVars, laterVars>>

\* display_simulation_errors(code, message)
display_simulation_errors(d, code, message) ==
    [d EXCEPT !.strerror = IF code # 0 /\ d.user_terminated
                           THEN @ \o <<message, "User terminated the job">>
                           ELSE Append(@, message),
              !.label = IF code # 0
                        THEN IF d.user_terminated THEN "User terminated the job."
                             ELSE "Job terminated due to an error with code"
                        ELSE "Job terminated successfully.",
              !.code = code,
              !.reported = TRUE,
              !.button = FALSE,
              !.timer = FALSE]

\* the slots of finished_signal, in the order they were connected:
\* BackendConnector.on_backend_thread_finished (process_dialog.accept()),
\* then RunningProcessDialog.display_simulation_errors
finished_signal_slots ==
    /\ GuiIdle /\ finished # Nothing
    /\ dialog' = display_simulation_errors([dialog EXCEPT !.visible = FALSE],
                                           finished[1].code, finished[1].message)
    /\ finished' = Nothing
    /\ Log(Ev("report", finished[1].code, 0))
    /\ UNCHANGED <<process, proc, thread_pc, term>>
    /\ UNCHANGED <<jobVarsButTrace, trajVars, mixVars, laterVars>>

\* for i in range(5): the polls of the grace period, one second apart
GracePolls == 5

grace_period_over_at_once(polls) == polls >= 0
grace_period_over(polls) == polls >= GracePolls

\* what follows the call of terminate_process in terminate_job (the button)
\* and in closeEvent (the window is closed)
after_terminate_process(d, by) ==
    IF by = "button"
    THEN [d EXCEPT !.timer = FALSE, !.button = FALSE, !.user_terminated = TRUE]
    ELSE [d EXCEPT !.timer = FALSE, !.visible = FALSE]

\* terminate_process returns to its caller, which runs to its end
terminate_process_returns(by) ==
    /\ term' = NoTerm
    /\ dialog' = after_terminate_process(dialog, by)

\* terminate_job or closeEvent: terminate_process up to the first poll.
\* Nothing is done without a process; os.getpgid raises ProcessLookupError
\* for a process that was collected, which the handler prints; otherwise
\* SIGTERM goes to the process group of the backend
terminate_process_begin(by) ==
    /\ GuiIdle /\ Platform # "win32"
    /\ dialog.visible
    /\ by = "button" => dialog.button
    /\ IF process = "None"
       THEN /\ terminate_process_returns(by)
            /\ Log(Ev("terminate_process", 0, 0))
            /\ UNCHANGED proc
       ELSE IF proc.state = "reaped"
       THEN /\ terminate_process_returns(by)
            /\ trace' = trace \o <<Ev("terminate_process", 1, 0),
                                   Ev("ProcessLookupError", 0, 0)>>
            /\ UNCHANGED proc
       ELSE /\ term' = [pc |-> "polling", polls |-> 0, by |-> by]
            /\ proc' = IF proc.state = "alive"
                       THEN [proc EXCEPT !.signals = @ \cup {15}] ELSE proc
            /\ trace' = trace \o
                 <<Ev("terminate_process", 1, IF proc.state = "alive" THEN 1 ELSE 0),
                   Ev("SIGTERM", IF proc.state = "alive" THEN 1 ELSE 0, 0)>>
            /\ UNCHANGED dialog
    /\ UNCHANGED <<process, thread_pc, finished>>
    /\ UNCHANGED <<jobVarsButTrace, trajVars, mixVars, laterVars>>

\* one round of the loop: self.process.poll(), then time.sleep(1). While
\* BackendThread.run waits in communicate(), poll() answers None until that
\* thread has collected the process
terminate_process_poll ==
    /\ GuiAlive /\ term.pc = "polling"
    /\ ~grace_period_over(term.polls)
    /\ IF proc.state = "reaped"
       THEN /\ terminate_process_returns(term.by)
            /\ Log(Ev("poll", term.polls + 1, 0))
       ELSE /\ term' = [term EXCEPT !.polls = @ + 1]
            /\ Log(Ev("poll", term.polls + 1, 1))
            /\ UNCHANGED dialog
    /\ UNCHANGED <<process, proc, thread_pc, finished>>
    /\ UNCHANGED <<jobVarsButTrace, trajVars, mixVars, laterVars>>

\* after the loop: os.killpg(os.getpgid(pid), signal.SIGKILL)
terminate_process_kill ==
    /\ GuiAlive /\ term.pc = "polling"
    /\ grace_period_over(term.polls)
    /\ IF proc.state = "reaped"
       THEN /\ Log(Ev("ProcessLookupError", 0, 0))
            /\ UNCHANGED proc
       ELSE /\ proc' = IF proc.state = "alive"
                       THEN [proc EXCEPT !.signals = @ \cup {9}] ELSE proc
            /\ Log(Ev("SIGKILL", IF proc.state = "alive" THEN 1 ELSE 0, 0))
    /\ terminate_process_returns(term.by)
    /\ UNCHANGED <<process, thread_pc, finished>>
    /\ UNCHANGED <<jobVarsButTrace, trajVars, mixVars, laterVars>>

\* BackendConnector.write_inputs_to_file: the inputs a job of the GUI runs
\* with; the trial budget of the GUI is fixed, here at GuiTrials
GuiStageLists(mode) ==
    { <<StageDict(1, mode, <<M_nvt, M_min>>)>>,
      <<StageDict(1, mode, <<M_min>>), StageDict(2, mode, <<M_vel, M_npt, M_nve>>)>> }

GuiInputs ==
    [run_mode                  : {MixtureMode},
     number_of_trials          : {GuiTrials},
     number_of_mixtures_needed : 1..MaxNeeded,
     lammps_stages_and_methods : GuiStageLists(MixtureMode)]
    \cup
    [run_mode                  : {PreviousMode},
     number_of_trials          : {1},
     number_of_mixtures_needed : {1},
     lammps_stages_and_methods : GuiStageLists(PreviousMode)]

\* BackendConnector.run: get_next_job_id picks an id without a directory,
\* the thread is started, the dialog is shown
InitGui ==
    /\ inputs \in GuiInputs
    /\ pc = "main"
    /\ trial_i = 0
    /\ nbr_of_mixtures_accepted = 0
    /\ stage_nbr = 0
    /\ lammps_stage = Nothing
    /\ previous_lammps_stage = Nothing
    /\ sim = NoSim
    /\ fs = NoDir
    /\ exit = Running
    /\ trace = <<>>
    /\ TrajOff
    /\ process = "None"
    /\ proc = [state |-> "unborn", signals |-> {}, retcode |-> 0]
    /\ thread_pc = "start"
    /\ finished = Nothing
    /\ term = NoTerm
    /\ dialog = NewDialog
    /\ MixOff
    /\ LaterOff

NextThread ==
    \/ \E ok \in BOOLEAN : BackendThread_run_Popen(ok)
    \/ Backend_exit
    \/ BackendThread_run_communicate
    \/ finished_signal_slots

NextCancel ==
    \/ NextJob
    \/ NextThread
    \/ \E sig \in {15, 9} : Process_dies(sig)
    \/ \E by \in {"button", "close"} : terminate_process_begin(by)
    \/ terminate_process_poll
    \/ terminate_process_kill

SpecCancel == InitGui /\ [][NextCancel]_vars

----------------------------------------------------------------------------
(* Properties of the cancellation                                           *)

\* the events of the trace that the backend process writes
PipelineEvents ==
    {"init", "raise", "clear_folder", "Mixture", "accepted", "rejected", "mkdir",
     "copy", "structure.data", "last.lammpstrj", "script", "exec", "exit",
     "trial_done", "end"}

\* SIGTERM was sent to the process group of a backend that was running
Cancelled(j) == j \in DOMAIN trace /\ trace[j] = Ev("SIGTERM", 1, 0)

----------------------------------------------------------------------------
(* The progress poll of the RunningProcessDialog                            *)

\* count_lammps_substages: the items a stage has in the GUI, which are its
\* methods other than the title, the echo and the read-back of the last frame
count_lammps_substages(stage) ==
    Cardinality({i \in DOMAIN stage.methods : stage.methods[i] \notin PlainCommands})

\* BackendConnector.progress_list: [[1..n] for n in count_lammps_substages()]
progress_list ==
    [n \in DOMAIN Stages |-> [k \in 1..count_lammps_substages(Stages[n]) |-> k]]

RECURSIVE SumLen(_, _)
SumLen(list, n) == IF n = 0 THEN 0 ELSE Len(list[n]) + SumLen(list, n - 1)

\* list.index(x) + 1, or 0 where Python raises ValueError
IndexOf(seq, x) ==
    IF \E i \in DOMAIN seq : seq[i] = x
    THEN CHOOSE i \in DOMAIN seq : seq[i] = x /\ \A j \in 1..(i - 1) : seq[j] # x
    ELSE 0

\* the files of a mixture directory whose names match ^(\d+)\.(\d+)_
MatchedFiles(dir, mix) == {f \in dir.files : f.mix = mix /\ f.stem.stage > 0}

\* a comparison of the stage numbers alone
TupleGreater_stage_only(f, g) == f.stem.stage > g.stem.stage

\* (stage, substage) > (latest_stage, latest_substage), as tuples compare
TupleGreater(f, g) ==
    \/ f.stem.stage > g.stem.stage
    \/ f.stem.stage = g.stem.stage /\ f.stem.substage > g.stem.substage

\* get_latest_mixture_folder_by_count(...).split("_")[-1] as an int: the
\* number of directories in the job directory
get_latest_mixture_folder_by_count(dir) == Cardinality(dir.mixtures)

\* calculate_progress(directory, list_of_progress): (total_progress,
\* total_substages), or the exception that it raises
calculate_progress(dir, current_mixture, list_of_progress) ==
    LET total == SumLen(list_of_progress, Len(list_of_progress))
        files == IF current_mixture = Nothing THEN {} ELSE MatchedFiles(dir, current_mixture[1])
        latest == CHOOSE f \in files : \A g \in files : ~TupleGreater(g, f)
        raised(e) == [outcome |-> e, completed |-> 0, total |-> 0,
                      had_file |-> files # {}]
    IN  IF current_mixture = Nothing \/ ~dir.job_dir THEN raised("FileNotFoundError")
        ELSE IF current_mixture[1] \notin dir.mixtures THEN raised("FileNotFoundError")
        ELSE IF files = {}
             THEN [outcome |-> "reported", completed |-> 0, total |-> total,
                   had_file |-> FALSE]
        ELSE IF latest.stem.stage > Len(list_of_progress) THEN raised("IndexError")
        ELSE IF IndexOf(list_of_progress[latest.stem.stage], latest.stem.substage) = 0
             THEN raised("ValueError")
        ELSE [outcome |-> "reported",
              completed |-> SumLen(list_of_progress, latest.stem.stage - 1)
                            + IndexOf(list_of_progress[latest.stem.stage],
                                      latest.stem.substage),
              total |-> total,
              had_file |-> TRUE]

\* the timer fires: read_log_file and update_time_elapsed show text only;
\* update_mixture_progress_bar lists the job directory outside any try, so
\* a missing directory raises FileNotFoundError out of the slot
update_mixture_progress_bar ==
    /\ GuiIdle /\ dialog.timer
    /\ IF ~fs.job_dir
       THEN dialog' = [dialog EXCEPT !.unhandled = "FileNotFoundError"]
       ELSE dialog' = [dialog EXCEPT
                         !.current_mixture = Some(get_latest_mixture_folder_by_count(fs)),
                         !.poll_pc = "stage"]
    /\ UNCHANGED <<process, proc, thread_pc, finished, term>>
    /\ UNCHANGED <<jobVars, trajVars, mixVars, laterVars>>

\* update_lammps_stage_progress_bar: every exception of calculate_progress is
\* caught and printed, and the bar is left as it was
update_lammps_stage_progress_bar ==
    /\ GuiAlive /\ dialog.poll_pc = "stage"
    /\ dialog' = [dialog EXCEPT
                    !.progress = calculate_progress(fs, dialog.current_mixture, progress_list),
                    !.poll_pc = "idle"]
    /\ UNCHANGED <<process, proc, thread_pc, finished, term>>
    /\ UNCHANGED <<jobVars, trajVars, mixVars, laterVars>>

NextPoll ==
    \/ NextJob
    \/ NextThread
    \/ update_mixture_progress_bar
    \/ update_lammps_stage_progress_bar

SpecPoll == InitGui /\ [][NextPoll]_vars

\* C8: under every interleaving of the poll with the steps of the pipeline,
\* a poll raises no unhandled error, a poll that finds no stage file reports
\* zero progress, and a reported progress has 0 <= completed <= total.
\* (A poll leaves the files alone: its two actions do not change fs.)
C8_PollIsSafe ==
    /\ dialog.unhandled = "none"
    /\ (dialog.progress.outcome # "none" /\ ~dialog.progress.had_file)
          => dialog.progress.outcome = "reported" /\ dialog.progress.completed = 0
    /\ dialog.progress.outcome = "reported"
          => 0 <= dialog.progress.completed
             /\ dialog.progress.completed <= dialog.progress.total

\* the part of C8 that the code keeps: what a poll reports is in range, and
\* it is zero when the mixture directory holds no stage file
C8_ReportedProgressInRange ==
    dialog.progress.outcome = "reported"
       => /\ 0 <= dialog.progress.completed
          /\ dialog.progress.completed <= dialog.progress.total
          /\ ~dialog.progress.had_file => dialog.progress.completed = 0

----------------------------------------------------------------------------
(* Mixture construction: Mixture.__init__, Molecule.__init__                *)

\* the SMILES strings tried: a valid one, an invalid one, the empty one
SmilesStrings == {"CCO", "C(", ""}

\* Chem.MolFromSmiles: None for a string that does not parse; the empty
\* string parses, to a molecule without atoms
MolFromSmiles(smiles) ==
    CASE smiles = ""   -> "empty Mol"
      [] smiles = "C(" -> "None"
      [] OTHER         -> "Mol"

\* Molecule._smiles_to_obj_mol: ValueError only where MolFromSmiles gave None
smiles_to_obj_mol(smiles) ==
    IF MolFromSmiles(smiles) = "None" THEN "ValueError" ELSE "none"

\* Molecule.generate_lowest_energy_conformer: RuntimeError where no conformer
\* was embedded and optimized; whether the library embeds a molecule without
\* atoms is not decided by this code
generate_lowest_energy_conformer(smiles, embeds_empty) ==
    IF MolFromSmiles(smiles) = "empty Mol" /\ ~embeds_empty
    THEN "RuntimeError" ELSE "none"

\* Molecule(name, info) as the g-th molecule overall, the first of its type
Molecule_init(species, g, embeds_empty) ==
    LET e1 == smiles_to_obj_mol(species.smiles)
        e2 == generate_lowest_energy_conformer(species.smiles, embeds_empty)
    IN  [raised |-> IF e1 # "none" THEN e1 ELSE e2,
         mol    |-> [type |-> species.name, id |-> <<g, 1>>,
                     smiles |-> species.smiles, rotated |-> FALSE]]

\* range(n): the number of rounds of a for loop over it
Range(n) == IF n > 0 THEN n ELSE 0

\* the copies made by the inner loop: update_name_and_id, randomly_rotate_mol
Duplicates(first, species, g) ==
    [i \in 1..Range(species.nbr_of_mols - 1) |->
        [first EXCEPT !.id = <<g + i, 1 + i>>, !.rotated = species.rotate]]

\* sorted(self.molecules, key=lambda x: x.type): a stable sort by type
RECURSIVE OfType(_, _)
OfType(mols, t) ==
    IF mols = <<>> THEN <<>>
    ELSE (IF Head(mols).type = t THEN <<Head(mols)>> ELSE <<>>) \o OfType(Tail(mols), t)

RECURSIVE SortedUpTo(_, _)
SortedUpTo(mols, t) ==
    IF t = 0 THEN <<>> ELSE SortedUpTo(mols, t - 1) \o OfType(mols, t)

sort_molecules_by_type(mols) == SortedUpTo(mols, MaxSpecies)

\* Mixture._populate_molecules from the k-th species on: one Molecule per
\* species whatever its count, then nbr_of_mols - 1 copies of it
RECURSIVE populate_molecules(_, _, _, _, _)
populate_molecules(dict, k, g, acc, embeds_empty) ==
    IF k > Len(dict) THEN [raised |-> "none", molecules |-> sort_molecules_by_type(acc)]
    ELSE LET m    == Molecule_init(dict[k], g + 1, embeds_empty)
             dups == Duplicates(m.mol, dict[k], g + 1)
         IN  IF m.raised # "none"
             THEN [raised |-> m.raised, molecules |-> <<>>]
             ELSE populate_molecules(dict, k + 1, g + 1 + Len(dups),
                                     acc \o <<m.mol>> \o dups, embeds_empty)

RECURSIVE total_molecules(_, _)
total_molecules(dict, k) ==
    IF k = 0 THEN 0 ELSE dict[k].nbr_of_mols + total_molecules(dict, k - 1)

\* BackendConnector.validate_molecules: the message of the first check that
\* fails, "" where all pass; a count of 0 passes
RECURSIVE validate_from(_, _)
validate_from(dict, k) ==
    IF k > Len(dict)
    THEN IF total_molecules(dict, Len(dict)) < 1
         THEN "Total number of molecules in the system should be at least 1."
         ELSE ""
    ELSE IF dict[k].nbr_of_mols < 0 THEN "Number of molecules cannot be negative."
    ELSE IF dict[k].smiles = "" THEN "Smiles string cannot be empty."
    ELSE validate_from(dict, k + 1)

validate_molecules(dict) == validate_from(dict, 1)

\* the species maps tried: one to MaxSpecies species, named 1..MaxSpecies in
\* alphabetical order, listed in any order
SpeciesMaps ==
    UNION { { d \in [1..len -> [name : 1..MaxSpecies,
                                nbr_of_mols : (0 - 1)..MaxCount,
                                smiles : SmilesStrings,
                                rotate : BOOLEAN]] :
                \A i, j \in 1..len : i # j => d[i].name # d[j].name } :
            len \in 1..MaxSpecies }

\* the job is submitted from the GUI, which validates the species first
BackendConnector_validate_molecules ==
    /\ mix_pc = "new"
    /\ mix_valid' = validate_molecules(molecules_dictionary)
    /\ mix_pc' = IF validate_molecules(molecules_dictionary) = ""
                 THEN "validated" ELSE "rejected"
    /\ UNCHANGED <<molecules_dictionary, mixture>>
    /\ UNCHANGED <<potential_energy_limit, potential_energy, mix_accepted>>
    /\ UNCHANGED <<jobVars, trajVars, guiVars, laterVars>>

\* Mixture(): of a job the GUI has validated, or of a backend that is run
\* on an inputs.py as it stands
Mixture_init(embeds_empty) ==
    /\ mix_pc \in {"new", "validated"}
    /\ mixture' = populate_molecules(molecules_dictionary, 1, 0, <<>>, embeds_empty)
    /\ mix_pc' = "constructed"
    /\ potential_energy' = 0
    /\ mix_accepted' = FALSE
    /\ UNCHANGED <<molecules_dictionary, mix_valid, potential_energy_limit>>
    /\ UNCHANGED <<jobVars, trajVars, guiVars, laterVars>>

MaxEnergy == 2

\* the overlap energies compute_total_lj_potential may return, and the
\* limits of inputs.py, in one unit
PotentialEnergies     == (0 - 1)..MaxEnergy
PotentialEnergyLimits == 0..(MaxEnergy - 1)

\* self.accepted = self.potential_energy < inputs.potential_energy_limit
accepted_with_equal(energy, limit) == energy <= limit
accepted_below_limit(energy, limit) == energy < limit

\* JobRunner.generate_mixture: the molecules are placed and the mixture is
\* scored by calculate_lj_potential_energy; the energy depends on the
\* positions drawn
generate_mixture(energy) ==
    /\ mix_pc = "constructed" /\ mixture.raised = "none"
    /\ potential_energy' = energy
    /\ mix_accepted' = accepted_below_limit(energy, potential_energy_limit)
    /\ mix_pc' = "scored"
    /\ UNCHANGED <<molecules_dictionary, mixture, mix_valid, potential_energy_limit>>
    /\ UNCHANGED <<jobVars, trajVars, guiVars, laterVars>>

InitMix ==
    /\ inputs = CHOOSE i \in Inputs : TRUE
    /\ molecules_dictionary \in SpeciesMaps
    /\ mixture = NoMixture
    /\ mix_valid = ""
    /\ mix_pc = "new"
    /\ potential_energy_limit \in PotentialEnergyLimits
    /\ potential_energy = 0
    /\ mix_accepted = FALSE
    /\ pc = "run_trials"
    /\ trial_i = 1
    /\ nbr_of_mixtures_accepted = 0
    /\ stage_nbr = 0
    /\ lammps_stage = Nothing
    /\ previous_lammps_stage = Nothing
    /\ sim = NoSim
    /\ fs = EmptyDir
    /\ exit = Running
    /\ trace = <<>>
    /\ TrajOff
    /\ GuiOff
    /\ LaterOff

NextMix ==
    \/ BackendConnector_validate_molecules
    \/ \E embeds_empty \in BOOLEAN : Mixture_init(embeds_empty)
    \/ \E energy \in PotentialEnergies : generate_mixture(energy)

SpecMix == InitMix /\ [][NextMix]_vars

Malformed(dict) ==
    \E k \in DOMAIN dict : dict[k].nbr_of_mols <= 0 \/ dict[k].smiles = ""

\* C10: constructing a Mixture from a species map in which some species has
\* a count <= 0 or an empty SMILES raises an error, and no Mixture holding
\* molecules comes out of it.
C10_MalformedSpeciesMapFails ==
    (mix_pc = "constructed" /\ Malformed(molecules_dictionary))
       => mixture.raised # "none" /\ mixture.molecules = <<>>

\* the same for the maps that went through validate_molecules of the GUI
C10_ValidatedMapIsWellFormed ==
    mix_pc = "validated" => ~Malformed(molecules_dictionary)

----------------------------------------------------------------------------
(* LammpsStages.call_methods, one method at a time, with the commands the  *)
(* builders append to LammpsCommands.script                                *)

MaxMethods == 3

\* a method name defined neither on LammpsStages nor on LammpsCommands
M_unknown == "standard_nph_stage"

\* Python strings whose characters the code inspects are sequences of
\* one-character strings
S_t           == <<"t">>
S_e           == <<"e">>
S_True_strain == <<"T", "r", "u", "e", " ", "s", "t", "r", "a", "i", "n">>
S_Engineering == <<"E", "n", "g", "i", "n", "e", "e", "r", "i", "n", "g">>
S_true        == <<"t", "r", "u", "e">>
S_rate        == <<"r", "a", "t", "e">>

StrainStyles == {S_t, S_e, S_True_strain, S_Engineering}

UpperCase == <<"A", "B", "C", "D", "E", "F", "G", "H", "I", "J", "K", "L", "M",
               "N", "O", "P", "Q", "R", "S", "T", "U", "V", "W", "X", "Y", "Z">>
LowerCase == <<"a", "b", "c", "d", "e", "f", "g", "h", "i", "j", "k", "l", "m",
               "n", "o", "p", "q", "r", "s", "t", "u", "v", "w", "x", "y", "z">>

\* str.lower()
lower(s) ==
    [i \in 1..Len(s) |->
        IF \E k \in 1..26 : UpperCase[k] = s[i]
        THEN LowerCase[CHOOSE k \in 1..26 : UpperCase[k] = s[i]]
        ELSE s[i]]

\* sub in s
Contains(sub, s) ==
    \E i \in 0..(Len(s) - Len(sub)) : SubSeq(s, i + 1, i + Len(sub)) = sub

\* a line of LammpsCommands.script that defines or deletes a fix or a dump,
\* declares a variable, runs or minimizes, or changes the box, or the title
\* that numbers a substage; other lines are not kept
Command(cmd, id, style, file, keyword) ==
    [cmd |-> cmd, id |-> id, style |-> style, file |-> file, keyword |-> keyword]

add_substage_title(s, k) == Command("title", "", "", Stem(s, k, ""), <<>>)
add_fix_nvt(id)          == Command("fix", id, "nvt", None, <<>>)
add_fix_npt(id)          == Command("fix", id, "npt", None, <<>>)
add_fix_nve(id)          == Command("fix", id, "nve", None, <<>>)
add_fix_ave_time(id, f)  == Command("fix", id, "ave/time", f, <<>>)
add_dump(id, f)          == Command("dump", id, "custom", f, <<>>)
add_unfix(id)            == Command("unfix", id, "", None, <<>>)
add_undump(id)           == Command("undump", id, "", None, <<>>)
add_run_command          == Command("run", "", "", None, <<>>)
add_fix_minimize         == Command("minimize", "", "", None, <<>>)

\* the line "variable {var_name} equal {var_expression}" of add_variable
add_variable(var_name, var_expression) ==
    Command("variable", var_name, "equal", None, <<var_expression>>)

\* change_box all x final .. y final .. z final .. remap units box
add_change_box(lst_of_new_box_dims) ==
    Command("change_box", "", "", None, lst_of_new_box_dims)

\* dict_of_variables of lammps_commands.py: one dictionary object of the
\* module, which every LammpsCommands instance refers to. Of its 46 entries
\* the model keeps the first, two box bounds and the last
DictOfVariables ==
    << [name |-> "R",    expr |-> "0.00198722"],
       [name |-> "xhi",  expr |-> "xhi"],
       [name |-> "xlo",  expr |-> "xlo"],
       [name |-> "time", expr |-> "step*dt+0.000001"] >>

\* self.dict_of_variables[var_name] = var_expression
dict_setitem(dict, var_name, var_expression) ==
    IF \E i \in 1..Len(dict) : dict[i].name = var_name
    THEN [i \in 1..Len(dict) |->
            IF dict[i].name = var_name
            THEN [name |-> var_name, expr |-> var_expression] ELSE dict[i]]
    ELSE Append(dict, [name |-> var_name, expr |-> var_expression])

\* the dictionary after the add_variable calls among the commands appended
RECURSIVE add_variable_dict(_, _)
add_variable_dict(dict, commands) ==
    IF commands = <<>> THEN dict
    ELSE LET c == Head(commands)
         IN  add_variable_dict(IF c.cmd = "variable"
                               THEN dict_setitem(dict, c.id, c.keyword[1])
                               ELSE dict,
                               Tail(commands))

TitleOf(st) == add_substage_title(st.stage_nbr, st.substage_nbr)

\* for key, value in dict_of_variables.items(): add_variable(key, value)
StandardInitializationSubstage_commands(st, dict) ==
    <<TitleOf(st)>>
    \o [i \in 1..Len(dict) |-> add_variable(dict[i].name, dict[i].expr)]

StandardVelocitiesStage_commands(st) == <<TitleOf(st)>>

StandardMinimizationSubstage_commands(st) ==
    LET f == Stem(st.stage_nbr, st.substage_nbr, "minimization")
    IN  <<TitleOf(st), add_dump("minrun", f), add_fix_minimize, add_undump("minrun")>>

StandardNvtStage_commands(st) ==
    LET f == Stem(st.stage_nbr, st.substage_nbr, "nvt")
    IN  <<TitleOf(st), add_fix_nvt("1"), add_fix_ave_time("2", f), add_dump("1", f),
          add_run_command,
          add_unfix("1"), add_unfix("2"), add_undump("1")>>

\* the two values of boxdims_changeto the builder tells apart
B_last    == "Last trajectory"
B_average == "Computed rho(average)"

BoxStyles == {B_last, B_average}

L_final   == "abs(((xhi-xlo)*(yhi-ylo)*(zhi-zlo))^(1/3))"
L_average == "abs(((v_xhiave-v_xloave)*(v_yhiave-v_yloave)*(v_zhiave-v_zloave))^(1/3))"

CubicBox    == <<"0", "${lcubic}", "0", "${lcubic}", "0", "${lcubic}">>
AveragedBox == <<"${xloave}", "${xhiave}", "${yloave}", "${yhiave}",
                 "${zloave}", "${zhiave}">>

\* the seven variables of the two "Computed rho(average)" branches
averaged_bounds(fix_id) ==
    <<add_variable("xloave", "f_" \o fix_id \o "[1]"),
      add_variable("xhiave", "f_" \o fix_id \o "[2]"),
      add_variable("yloave", "f_" \o fix_id \o "[3]"),
      add_variable("yhiave", "f_" \o fix_id \o "[4]"),
      add_variable("zloave", "f_" \o fix_id \o "[5]"),
      add_variable("zhiave", "f_" \o fix_id \o "[6]"),
      add_variable("lcubic", L_average)>>

\* LammpsCommands.add_custom_change_box: the four branches, and nothing for
\* any other style
add_custom_change_box(fix_id, boxdims_changeto_style, setcubic) ==
    IF boxdims_changeto_style = B_last /\ ~setcubic THEN <<>>
    ELSE IF boxdims_changeto_style = B_last /\ setcubic
         THEN <<add_variable("lcubic", L_final), add_change_box(CubicBox)>>
    ELSE IF boxdims_changeto_style = B_average /\ setcubic
         THEN averaged_bounds(fix_id)
              \o <<add_change_box(AveragedBox), add_change_box(CubicBox)>>
    ELSE IF boxdims_changeto_style = B_average /\ ~setcubic
         THEN averaged_bounds(fix_id) \o <<add_change_box(AveragedBox)>>
    ELSE <<>>

\* the NPT builder without its unfix 3
StandardNptStage_commands_keeps_fix_3(st, boxdims_changeto, set_cubic) ==
    LET f == Stem(st.stage_nbr, st.substage_nbr, "npt")
    IN  <<TitleOf(st), add_fix_npt("1"), add_fix_ave_time("2", f),
          add_fix_ave_time("3", None), add_dump("1", f), add_run_command>>
        \o add_custom_change_box("3", boxdims_changeto, set_cubic)
        \o <<add_unfix("1"), add_unfix("2"), add_undump("1")>>

\* fix 3 averages the box bounds and names no file
StandardNptStage_commands(st, boxdims_changeto, set_cubic) ==
    LET f == Stem(st.stage_nbr, st.substage_nbr, "npt")
    IN  <<TitleOf(st), add_fix_npt("1"), add_fix_ave_time("2", f),
          add_fix_ave_time("3", None), add_dump("1", f), add_run_command>>
        \o add_custom_change_box("3", boxdims_changeto, set_cubic)
        \o <<add_unfix("1"), add_unfix("2"), add_unfix("3"), add_undump("1")>>

StandardNveStage_commands(st) ==
    LET f == Stem(st.stage_nbr, st.substage_nbr, "nve")
    IN  <<TitleOf(st), add_fix_nve("1"), add_fix_ave_time("2", f), add_dump("1", f),
          add_run_command,
          add_unfix("1"), add_unfix("2"), add_undump("1")>>

\* if "true" in self.strain_style.lower(): self.strain_style = "t"
preprocess_gui_inputs_into_readable_inputs(strain_style) ==
    IF Contains(S_true, lower(strain_style)) THEN S_t ELSE strain_style

\* add_custom_code: fix upperW / lowerW ... indent, and
\* fix dfrm all deform N <axis> {strain_style}rate ${strainrate}
custom_fixes(strain_style) ==
    <<Command("fix", "upperW", "indent", None, <<>>),
      Command("fix", "lowerW", "indent", None, <<>>),
      Command("fix", "dfrm", "deform", None, strain_style \o S_rate)>>

\* the compression axis of the deformation, and the one it is compared with
comp_axis == "z"
final_dim == "x"

StandardDeformationStage_commands(st, strain_style) ==
    LET f     == Stem(st.stage_nbr, st.substage_nbr, "uniaxialcompression")
        style == preprocess_gui_inputs_into_readable_inputs(strain_style)
    IN  <<TitleOf(st),
          add_variable("strainrate",
                       "ln((l" \o final_dim \o "+4.0)/l" \o comp_axis \o ")/100000"),
          add_variable("strainrateconst", "${strainrate}"),
          add_fix_nvt("1"), add_fix_ave_time("2", f),
          add_variable("w" \o comp_axis \o "high", "v_" \o comp_axis \o "hi - 2.0"),
          add_variable("w" \o comp_axis \o "low", "v_" \o comp_axis \o "lo + 2.0")>>
        \o custom_fixes(style)
        \o <<add_dump("1", f), add_run_command,
             add_unfix("1"), add_unfix("2"), add_unfix("upperW"),
             add_unfix("lowerW"), add_unfix("dfrm"), add_undump("1")>>

\* what method_to_call(**params) appends to LammpsCommands.script
method_commands(st, method_config, dict) ==
    LET name == method_config.name
    IN  CASE name = M_init -> StandardInitializationSubstage_commands(st, dict)
          [] name = M_min  -> StandardMinimizationSubstage_commands(st)
          [] name = M_vel  -> StandardVelocitiesStage_commands(st)
          [] name = M_nvt  -> StandardNvtStage_commands(st)
          [] name = M_npt  -> StandardNptStage_commands(st, method_config.boxdims_changeto,
                                                        method_config.set_cubic)
          [] name = M_nve  -> StandardNveStage_commands(st)
          [] name = M_def  -> StandardDeformationStage_commands(st, method_config.strain_style)
          [] OTHER -> <<>>

StandardBuilders == {M_init, M_min, M_vel, M_nvt, M_npt, M_nve, M_def}
DumpBuilders     == {M_min, M_nvt, M_npt, M_nve, M_def}

\* a method of a stage with the parameters the builders tell apart; the NPT
\* parameters have the defaults of StandardNptStage.__init__
MethodConfig(name, strain_style) ==
    [name |-> name, strain_style |-> strain_style,
     boxdims_changeto |-> B_last, set_cubic |-> FALSE]

NptConfig(boxdims_changeto, set_cubic) ==
    [MethodConfig(M_npt, <<>>) EXCEPT !.boxdims_changeto = boxdims_changeto,
                                      !.set_cubic = set_cubic]

MethodConfigs ==
    { MethodConfig(n, <<>>) :
        n \in (StandardBuilders \ {M_def}) \cup PlainCommands \cup {M_unknown} }
    \cup { MethodConfig(M_def, s) : s \in StrainStyles }
    \cup { NptConfig(b, c) : b \in BoxStyles, c \in BOOLEAN }

stage_name(n) == "stage_" \o ToString(n)

\* raise AttributeError(f"Error: Method {method_name} not found in
\* {self.__class__.__name__} or LammpsCommands")
AttributeError(method_name) ==
    [type    |-> "AttributeError",
     message |-> <<"Error: Method ", method_name, " not found in ",
                   "LammpsStages", " or LammpsCommands">>]

\* the loop body of call_methods for the next method of the stage
call_methods_step ==
    /\ builder_pc = "calling"
    /\ Len(builder_calls) < Len(stage_dict.methods)
    /\ LET method_config == stage_dict.methods[Len(builder_calls) + 1]
           st == method_to_call(builder_stage, method_config.name)
           appended == method_commands(builder_stage, method_config, dict_of_variables)
       IN  IF st.error # "none"
           THEN /\ builder_error' = Some(AttributeError(method_config.name))
                /\ builder_pc' = "raised"
                /\ UNCHANGED <<builder_stage, lammps_commands, builder_calls,
                               dict_of_variables>>
           ELSE /\ builder_stage' = st
                /\ lammps_commands' = lammps_commands \o appended
                /\ dict_of_variables' = add_variable_dict(dict_of_variables, appended)
                /\ builder_calls' = Append(builder_calls,
                      [name   |-> method_config.name,
                       before |-> builder_stage.substage_nbr,
                       after  |-> st.substage_nbr,
                       first  |-> Len(lammps_commands) + 1,
                       last   |-> Len(lammps_commands) + Len(appended),
                       last_lammpstrj_file |-> st.last_lammpstrj_file])
                /\ UNCHANGED <<builder_error, builder_pc>>
    /\ UNCHANGED <<stage_dict, stage_list, run_command, script_files, executed>>
    /\ UNCHANGED <<jobVars, trajVars, guiVars, mixVars, progVars, idVars, extraVars>>

Digits == <<"0", "1", "2", "3", "4", "5", "6", "7", "8", "9">>

\* str(n) and f"{n}": the decimal digits of a positive integer
RECURSIVE str(_)
str(n) ==
    IF n < 10 THEN <<Digits[n + 1]>>
    ELSE str(n \div 10) \o <<Digits[(n % 10) + 1]>>

S_stage_ == <<"s", "t", "a", "g", "e", "_">>
S_dot_in == <<".", "i", "n">>
S_in_stage_1 == <<"-", "i", "n", " ", "s", "t", "a", "g", "e", "_", "1", ".", "i", "n">>
S_in_stage_  == <<"-", "i", "n", " ", "s", "t", "a", "g", "e", "_">>

\* f"{stage_name}.in" for the stage named stage_<n>
script_file_name(n) == S_stage_ \o str(n) \o S_dot_in

\* the entries joined last to first
join_reversed(script) ==
    [k \in 1..(IF script = <<>> THEN 0 ELSE 2 * Len(script) - 1) |->
        IF k % 2 = 1 THEN script[Len(script) - ((k + 1) \div 2) + 1] ELSE "\n"]

\* "\n".join(script): the entries in their order, a line break between two
join(script) ==
    [k \in 1..(IF script = <<>> THEN 0 ELSE 2 * Len(script) - 1) |->
        IF k % 2 = 1 THEN script[(k + 1) \div 2] ELSE "\n"]

\* self.write_script(f"{stage_name}.in") after the last method
call_methods_write_script ==
    /\ builder_pc = "calling"
    /\ Len(builder_calls) = Len(stage_dict.methods)
    /\ builder_stage' = [builder_stage EXCEPT !.lammps_input_script_file = stage_dict.stage]
    /\ script_files' = Append(script_files,
                              [file |-> script_file_name(stage_dict.stage),
                               text |-> join(lammps_commands)])
    /\ builder_pc' = "written"
    /\ UNCHANGED <<stage_dict, lammps_commands, builder_calls, builder_error,
                   dict_of_variables, stage_list, run_command, executed>>
    /\ UNCHANGED <<jobVars, trajVars, guiVars, mixVars, progVars, idVars, extraVars>>

\* str.startswith at position i (from 1)
StartsAt(s, i, sub) ==
    i + Len(sub) - 1 <= Len(s) /\ SubSeq(s, i, i + Len(sub) - 1) = sub

\* str.replace(old, new) for a non-empty old: every occurrence, left to
\* right, none overlapping
RECURSIVE replace(_, _, _)
replace(s, old, new) ==
    IF s = <<>> THEN <<>>
    ELSE IF StartsAt(s, 1, old)
         THEN new \o replace(SubSeq(s, Len(old) + 1, Len(s)), old, new)
    ELSE <<Head(s)>> \o replace(Tail(s), old, new)

\* str.split(" "): the pieces between the blanks, empty pieces kept
RECURSIVE split(_, _)
split(s, piece) ==
    IF s = <<>> THEN <<piece>>
    ELSE IF Head(s) = " " THEN <<piece>> \o split(Tail(s), <<>>)
    ELSE split(Tail(s), Append(piece, Head(s)))

\* inputs.run_command.replace("-in stage_1.in", f"-in stage_{stage_nbr + 1}.in")
stage_run_command(command, nbr) ==
    replace(command, S_in_stage_1, S_in_stage_ \o str(nbr) \o S_dot_in)

\* generate_and_run_lammps: lammps_stage.run(run_command=...) follows
\* call_methods; run() splits the command at the blanks for subprocess.run
builder_run ==
    /\ builder_pc = "written"
    /\ builder_pc' = "run"
    /\ executed' = Append(executed,
                          [stage |-> builder_stage.stage_nbr,
                           cmd   |-> split(stage_run_command(run_command,
                                                             builder_stage.stage_nbr),
                                           <<>>)])
    /\ UNCHANGED <<stage_dict, builder_stage, lammps_commands, builder_calls,
                   builder_error, dict_of_variables, stage_list, run_command,
                   script_files>>
    /\ UNCHANGED <<jobVars, trajVars, guiVars, mixVars, progVars, idVars, extraVars>>

\* the head of the loop of generate_and_run_lammps for a stage that has a
\* predecessor, whose simulator run exited with code 0 and wrote its files:
\* write_last_trajectory of that stage opens the file its pointer names,
\* then LammpsStages(stage_nbr + 1) makes its own LammpsCommands()
next_stage ==
    /\ builder_pc = "run"
    /\ builder_stage.stage_nbr < Len(stage_list)
    /\ IF builder_stage.last_lammpstrj_file = None
       THEN /\ builder_error' = Some([type |-> "FileNotFoundError", message |-> <<>>])
            /\ builder_pc' = "raised"
            /\ UNCHANGED <<stage_dict, builder_stage, lammps_commands, builder_calls>>
       ELSE /\ stage_dict' = stage_list[builder_stage.stage_nbr + 1]
            /\ builder_stage' = LammpsStages_init(builder_stage.stage_nbr + 1)
            /\ lammps_commands' = <<>>
            /\ builder_calls' = <<>>
            /\ builder_pc' = "calling"
            /\ UNCHANGED builder_error
    /\ UNCHANGED <<dict_of_variables, stage_list, run_command, script_files, executed>>
    /\ UNCHANGED <<jobVars, trajVars, guiVars, mixVars, progVars, idVars, extraVars>>

MethodLists ==
    UNION { [1..len -> MethodConfigs] : len \in 1..MaxMethods }

\* the command line of tab4.update_run_command, and one a user typed with
\* the short form of the switch
RC_default == <<"l", "m", "p", " ", "-", "i", "n", " ", "s", "t", "a", "g", "e", "_", "1", ".", "i", "n">>
RC_short   == <<"l", "m", "p", " ", "-", "i", " ", "s", "t", "a", "g", "e", "_", "1", ".", "i", "n">>

RunCommands == {RC_default, RC_short}

\* the state the other processes of the model are held in while the
\* builders run
BuilderIdle ==
    /\ inputs = CHOOSE i \in Inputs : TRUE
    /\ pc = "call_methods"
    /\ trial_i = 1
    /\ nbr_of_mixtures_accepted = 1
    /\ stage_nbr = 0
    /\ lammps_stage = Nothing
    /\ previous_lammps_stage = Nothing
    /\ sim = NoSim
    /\ fs = EmptyDir
    /\ exit = Running
    /\ trace = <<>>
    /\ TrajOff
    /\ GuiOff
    /\ MixOff
    /\ ProgOff
    /\ IdOff
    /\ ExtraOff

InitBuild ==
    /\ BuilderIdle
    /\ \E n \in {1, MaxStages}, methods \in MethodLists :
          /\ stage_dict = [stage |-> n, methods |-> methods]
          /\ builder_stage = LammpsStages_init(n)
          /\ stage_list = [k \in 1..n |-> stage_dict]
    /\ lammps_commands = <<>>
    /\ builder_calls = <<>>
    /\ builder_error = Nothing
    /\ builder_pc = "calling"
    /\ dict_of_variables = DictOfVariables
    /\ run_command = RC_default
    /\ script_files = <<>>
    /\ executed = <<>>

NextBuild ==
    \/ call_methods_step
    \/ call_methods_write_script
    \/ builder_run

SpecBuild == InitBuild /\ [][NextBuild]_vars

----------------------------------------------------------------------------
(* generate_and_run_lammps: the scripts of the stages of a mixture, built  *)
(* one after the other in one process                                      *)

\* the substages a user assembles after the initialization of a stage, with
\* their parameters
ScriptBodies ==
    { <<MethodConfig(M_nvt, <<>>)>>,
      <<MethodConfig(M_min, <<>>)>>,
      <<MethodConfig(M_def, S_True_strain)>>,
      <<NptConfig(B_last, TRUE)>>,
      <<NptConfig(B_average, FALSE)>>,
      <<MethodConfig(M_vel, <<>>), NptConfig(B_average, TRUE), MethodConfig(M_nve, <<>>)>> }

\* translate_simulation_inputs_to_lammps_stages for the stage stage_<n>
ScriptStage(n, body) ==
    [stage   |-> n,
     methods |-> [i \in 1..Len(StageDict(n, MixtureMode, <<>>).methods) |->
                     MethodConfig(StageDict(n, MixtureMode, <<>>).methods[i], <<>>)]
                 \o body]

ScriptStageLists ==
    UNION { { [n \in 1..len |-> ScriptStage(n, bodies[n])] :
                bodies \in [1..len -> ScriptBodies] } : len \in 1..MaxStages }

InitStages ==
    /\ BuilderIdle
    /\ stage_list \in ScriptStageLists
    /\ stage_dict = stage_list[1]
    /\ builder_stage = LammpsStages_init(1)
    /\ lammps_commands = <<>>
    /\ builder_calls = <<>>
    /\ builder_error = Nothing
    /\ builder_pc = "calling"
    /\ dict_of_variables = DictOfVariables
    /\ run_command \in RunCommands
    /\ script_files = <<>>
    /\ executed = <<>>

NextStages ==
    \/ call_methods_step
    \/ call_methods_write_script
    \/ builder_run
    \/ next_stage

SpecStages == InitStages /\ [][NextStages]_vars

Names(message, name) == \E i \in 1..Len(message) : message[i] = name

\* C11: call_methods on a stage with a method name defined neither on
\* LammpsStages nor on LammpsCommands raises a 'method not found' error that
\* names both the stage and the attempted method, before the script file of
\* the stage is written or the simulator is invoked.
C11_UnknownMethodErrorNamesStageAndMethod ==
    (builder_pc = "raised") =>
        /\ builder_error # Nothing
        /\ builder_error[1].type = "AttributeError"
        /\ Names(builder_error[1].message,
                 stage_dict.methods[Len(builder_calls) + 1].name)
        /\ Names(builder_error[1].message, stage_name(stage_dict.stage))
        /\ builder_stage.lammps_input_script_file = 0

\* the part of C11 the code keeps: an unknown name raises an AttributeError
\* naming the method, nothing is written and the simulator is not invoked,
\* and a stage without an unknown name never raises
C11_UnknownMethodStopsBeforeScript ==
    /\ \A i \in 1..Len(builder_calls) : stage_dict.methods[i].name # M_unknown
    /\ (builder_pc = "raised") =>
          /\ stage_dict.methods[Len(builder_calls) + 1].name = M_unknown
          /\ Names(builder_error[1].message, M_unknown)
          /\ builder_stage.lammps_input_script_file = 0
    /\ (builder_pc \in {"written", "run"}) =>
          \A i \in 1..Len(stage_dict.methods) : stage_dict.methods[i].name # M_unknown

\* the strain styles that ask for true strain: LAMMPS' own keyword and the
\* choice of the GUI
TrueStrainStyles == {S_t, S_True_strain}

DeformCommands == { i \in 1..Len(lammps_commands) : lammps_commands[i].style = "deform" }

\* C12: the uniaxial-deformation builder supports only the true-strain
\* style; for any other strain_style it raises an error and appends no
\* deformation command, instead of coercing the value or passing it through.
C12_OtherStrainStyleRejected ==
    \A i \in 1..Len(builder_calls) :
        LET method_config == stage_dict.methods[i]
        IN  (method_config.name = M_def
                /\ method_config.strain_style \notin TrueStrainStyles)
            => /\ builder_error # Nothing
               /\ \A k \in DeformCommands :
                     ~(builder_calls[i].first <= k /\ k <= builder_calls[i].last)

\* what the builder does instead: a true-strain request becomes trate, any
\* other value is passed through in front of "rate", and nothing is raised
C12_StrainStylePassedThrough ==
    \A i \in 1..Len(builder_calls) :
        LET method_config == stage_dict.methods[i]
        IN  method_config.name = M_def =>
              \E k \in DeformCommands :
                 /\ builder_calls[i].first <= k /\ k <= builder_calls[i].last
                 /\ lammps_commands[k].keyword =
                       (IF method_config.strain_style \in TrueStrainStyles
                        THEN S_t ELSE method_config.strain_style) \o S_rate

----------------------------------------------------------------------------
(* calculate_progress on any directory listing and any list_of_progress    *)

MaxProgStages == 2
MaxProgSubs   == 2
MaxListed     == 3

\* the file names of a listing: <stage>.<substage>_x for stage and substage
\* numbers up to one past those of the lists, and a name without the prefix
ListedNames ==
    { OutFile(1, Dump(Stem(s, k, "x"))) :
         s \in 1..(MaxProgStages + 1), k \in 1..(MaxProgSubs + 1) }
    \cup { PlainFile(1, "log.lammps") }

Listings == { l \in SUBSET ListedNames : Cardinality(l) <= MaxListed }

\* the substage numbers of one stage: 1..n as BackendConnector builds them,
\* and the same numbers in another order
SubstageLists ==
    { [k \in 1..n |-> k] : n \in 0..MaxProgSubs }
    \cup { [k \in 1..n |-> n + 1 - k] : n \in 2..MaxProgSubs }

ProgressLists ==
    UNION { [1..len -> SubstageLists] : len \in 1..MaxProgStages }

\* calculate_progress(directory, list_of_progress)
call_calculate_progress ==
    /\ progress = NoProgress
    /\ progress' = calculate_progress(
                      [EmptyDir EXCEPT !.mixtures = {1}, !.files = prog_directory],
                      Some(1), prog_list)
    /\ UNCHANGED <<prog_directory, prog_list>>
    /\ UNCHANGED <<jobVars, trajVars, guiVars, mixVars, buildVars, idVars, extraVars>>

InitProg ==
    /\ inputs = CHOOSE i \in Inputs : TRUE
    /\ prog_directory \in Listings
    /\ prog_list \in ProgressLists
    /\ progress = NoProgress
    /\ pc = "lammps_wait"
    /\ trial_i = 1
    /\ nbr_of_mixtures_accepted = 1
    /\ stage_nbr = 0
    /\ lammps_stage = Nothing
    /\ previous_lammps_stage = Nothing
    /\ sim = NoSim
    /\ fs = EmptyDir
    /\ exit = Running
    /\ trace = <<>>
    /\ TrajOff
    /\ GuiOff
    /\ MixOff
    /\ BuildOff
    /\ IdOff
    /\ ExtraOff

NextProg == call_calculate_progress

SpecProg == InitProg /\ [][NextProg]_vars

\* the (stage, substage) pairs of the names of the form <stage>.<substage>_
Pairs == { <<f.stem.stage, f.stem.substage>> : f \in {g \in prog_directory : g.stem.stage > 0} }

PairLeq(a, b) == a[1] < b[1] \/ (a[1] = b[1] /\ a[2] <= b[2])

IsGreatest(p) == p \in Pairs /\ \A q \in Pairs : PairLeq(q, p)

\* the entries of prog_list, as (stage, position within the stage)
Entries ==
    { e \in (1..Len(prog_list)) \X (1..MaxProgSubs) : e[2] <= Len(prog_list[e[1]]) }

\* the substages of all stages before s, and those of stage s up to t
UpTo(s, t) ==
    { e \in Entries :
        \/ e[1] < s
        \/ e[1] = s /\ \E j \in 1..Len(prog_list[s]) :
                          prog_list[s][j] = t /\ e[2] <= j }

Listed(s, t) ==
    /\ s \in 1..Len(prog_list)
    /\ \E j \in 1..Len(prog_list[s]) : prog_list[s][j] = t

\* C13, as stated: for any listing and any prog_list the call returns
\* (p, total), total the number of substages of all stages and p the number
\* of substages up to the greatest (stage, substage) pair of the listing.
C13_ProgressForAnyListing ==
    progress # NoProgress =>
        /\ progress.outcome = "reported"
        /\ progress.total = Cardinality(Entries)
        /\ \A p \in Pairs :
              IsGreatest(p) => progress.completed = Cardinality(UpTo(p[1], p[2]))

\* C13, amended: the same where the greatest pair of the listing is a
\* substage of prog_list, and (0, total) where no name has the form
C13_ProgressForListedSubstage ==
    progress # NoProgress =>
        /\ \A p \in Pairs :
              (IsGreatest(p) /\ Listed(p[1], p[2])) =>
                 /\ progress.outcome = "reported"
                 /\ progress.total = Cardinality(Entries)
                 /\ progress.completed = Cardinality(UpTo(p[1], p[2]))
        /\ Pairs = {} =>
              /\ progress.outcome = "reported"
              /\ progress.total = Cardinality(Entries)
              /\ progress.completed = 0

\* the example: 1.1_, 1.2_ and 2.1_ with [[1, 2], [1]] give (3, 3)
C13_Witness ==
    /\ Pairs = {<<1, 1>>, <<1, 2>>, <<2, 1>>}
    /\ prog_list = << <<1, 2>>, <<1>> >>
    /\ progress.outcome = "reported"
    /\ progress.completed = 3 /\ progress.total = 3

----------------------------------------------------------------------------
(* The failure report of a job whose simulator failed                       *)

\* the backend process ended because LammpsStages.run raised on a non-zero
\* return code of the simulator
SimulatorFailed == exit.type = "Exception" /\ exit.returncode # 0

\* C14: when a job fails because the simulator exits with a non-zero code,
\* the report delivered through BackendThread.finished_signal carries the
\* non-zero exit code together with the captured standard-error text.
C14_FailureReportCarriesStderr ==
    (finished # Nothing /\ SimulatorFailed /\ exit.stderr # "") =>
        /\ finished[1].code # 0
        /\ finished[1].message = exit.stderr

\* the part of C14 the code keeps: the report of such a job carries the
\* non-zero exit code of the backend; its text never depends on the failure
C14_FailureReportCarriesCode ==
    (finished # Nothing /\ SimulatorFailed) =>
        /\ finished[1].code = 1
        /\ finished[1].message = "Process finished without errors."

----------------------------------------------------------------------------
(* The preparation of an accepted mixture                                   *)

\* the mixture an event belongs to: the acceptances logged before it
AcceptedBefore(k) == Cardinality({j \in Events("accepted") : j < k})

\* the directory of mixture n holds what export_molecules writes
Exported(n) == export_molecules(fs, n).files \subseteq fs.files

\* mixture_<n> was made and structure.data built in it, in that order,
\* before the step k of the trace
DirectoryThenTopology(n, k) ==
    \E i, j \in DOMAIN trace :
        /\ i < j /\ j < k
        /\ trace[i] = Ev("mkdir", n, 0)
        /\ trace[j] = Ev("structure.data", n, 0)

\* nothing is made for a rejected mixture: the step after a rejection is the
\* next trial or the end of the job
NothingForRejected ==
    /\ \A j \in Events("rejected") :
          j < Len(trace) => trace[j + 1].ev \in {"Mixture", "end"}
    /\ Count("mkdir") = Count("accepted")
    /\ Count("structure.data") <= Count("accepted")

\* C15: for every accepted mixture, before its first stage is executed the
\* pipeline has made output/<job_id>/mixture_<n>, exported the per-molecule
\* structure files of the mixture and built structure.data, in this order;
\* none of these steps is taken for a rejected mixture.
C15_AcceptedMixturePrepared ==
    InMixtureMode =>
        /\ \A k \in Events("exec") :
              /\ DirectoryThenTopology(AcceptedBefore(k), k)
              /\ Exported(AcceptedBefore(k))
        /\ NothingForRejected

\* the part of C15 the code keeps: the directory, then the topology input,
\* before the first stage, and nothing of it for a rejected mixture
C15_DirectoryThenTopologyBeforeStages ==
    InMixtureMode =>
        /\ \A k \in Events("exec") : DirectoryThenTopology(AcceptedBefore(k), k)
        /\ NothingForRejected

----------------------------------------------------------------------------
(* The acceptance of a mixture                                              *)

\* C16: the accepted flag of a mixture is False until the mixture has been
\* scored; after scoring it is True if and only if the overlap energy is
\* strictly less than potential_energy_limit (an energy equal to the limit
\* is rejected); a rejection raises no error.
C16_AcceptedIffEnergyBelowLimit ==
    /\ mix_pc # "scored" => mix_accepted = FALSE
    /\ mix_pc = "scored" =>
          /\ mix_accepted <=> (potential_energy < potential_energy_limit)
          /\ potential_energy = potential_energy_limit => ~mix_accepted
          /\ mixture.raised = "none"

\* a mixture whose energy equals the limit was scored and rejected
C16_Witness ==
    /\ mix_pc = "scored"
    /\ potential_energy = potential_energy_limit
    /\ ~mix_accepted
    /\ mixture.molecules # <<>>

----------------------------------------------------------------------------
(* BackendConnector.get_next_job_id                                         *)

MaxNameLen == 2
MaxEntries == 2
MaxJobs    == 2

\* the names of the entries of output/: strings over a few characters
NameChars == {"0", "1", "-", "a"}

EntryNames == UNION { [1..len -> NameChars] : len \in 1..MaxNameLen }

\* the subsets of S of at most k elements
RECURSIVE UpToK(_, _)
UpToK(S, k) ==
    IF k = 0 THEN {{}}
    ELSE UpToK(S, k - 1) \cup { T \cup {x} : T \in UpToK(S, k - 1), x \in S }

OutputListings == UpToK(EntryNames, MaxEntries)

IsDigit(c) == \E d \in 1..10 : Digits[d] = c

DigitValue(c) == (CHOOSE d \in 1..10 : Digits[d] = c) - 1

RECURSIVE DecimalValue(_)
DecimalValue(s) ==
    IF s = <<>> THEN 0
    ELSE 10 * DecimalValue(SubSeq(s, 1, Len(s) - 1)) + DigitValue(s[Len(s)])

\* int(folder): an optional sign and one or more decimal digits, leading
\* zeros allowed; Nothing where Python raises ValueError
int(folder) ==
    LET signed == folder # <<>> /\ folder[1] = "-"
        digits == IF signed THEN Tail(folder) ELSE folder
    IN  IF digits # <<>> /\ \A i \in 1..Len(digits) : IsDigit(digits[i])
        THEN Some(IF signed THEN 0 - DecimalValue(digits) ELSE DecimalValue(digits))
        ELSE Nothing

Max(a, b) == IF a >= b THEN a ELSE b

\* the loop over dir_list: largest_id = max(largest_id, int(folder)),
\* starting from 0, the names that are no integers skipped
RECURSIVE largest_id(_)
largest_id(dir_list) ==
    IF dir_list = {} THEN 0
    ELSE LET folder == CHOOSE f \in dir_list : TRUE
             rest   == largest_id(dir_list \ {folder})
         IN  IF int(folder) = Nothing THEN rest ELSE Max(rest, int(folder)[1])

\* the largest id itself
next_job_id_is_largest(dir_list) == largest_id(dir_list)

\* self.job_id = largest_id + 1
next_job_id(dir_list) == largest_id(dir_list) + 1

\* BackendConnector.run: get_next_job_id(output)
get_next_job_id ==
    /\ job_id = Nothing
    /\ Len(job_ids) < MaxJobs
    /\ job_id' = Some(next_job_id(output_entries))
    /\ job_ids' = Append(job_ids, next_job_id(output_entries))
    /\ UNCHANGED output_entries
    /\ UNCHANGED <<jobVars, trajVars, guiVars, mixVars, buildVars, progVars, extraVars>>

\* JobRunner.__init__ of the backend started with --id <job_id>:
\* os.makedirs(output/<job_id>); the job runs to its end and the next job
\* can be submitted
JobRunner_makedirs ==
    /\ job_id # Nothing
    /\ output_entries' = output_entries \cup {str(job_id[1])}
    /\ job_id' = Nothing
    /\ UNCHANGED job_ids
    /\ UNCHANGED <<jobVars, trajVars, guiVars, mixVars, buildVars, progVars, extraVars>>

InitId ==
    /\ inputs = CHOOSE i \in Inputs : TRUE
    /\ output_entries \in OutputListings
    /\ job_id = Nothing
    /\ job_ids = <<>>
    /\ pc = "main"
    /\ trial_i = 0
    /\ nbr_of_mixtures_accepted = 0
    /\ stage_nbr = 0
    /\ lammps_stage = Nothing
    /\ previous_lammps_stage = Nothing
    /\ sim = NoSim
    /\ fs = NoDir
    /\ exit = Running
    /\ trace = <<>>
    /\ TrajOff
    /\ GuiOff
    /\ MixOff
    /\ BuildOff
    /\ ProgOff
    /\ ExtraOff

NextId ==
    \/ get_next_job_id
    \/ JobRunner_makedirs

SpecId == InitId /\ [][NextId]_vars

\* C17: get_next_job_id assigns a positive integer that is not the name of
\* any entry of output/ (names that are no integers are ignored), so a newly
\* submitted job never takes the directory of an earlier job.
C17_NextJobIdIsUnused ==
    /\ job_id # Nothing =>
          /\ job_id[1] >= 1
          /\ str(job_id[1]) \notin output_entries
          /\ \A e \in output_entries : int(e) # Some(job_id[1])
    /\ \A i, j \in 1..Len(job_ids) : i # j => job_ids[i] # job_ids[j]

\* the second job of a session is given its id while output/ holds an entry
\* that is no integer, an integer with a leading zero and the first job
C17_Witness ==
    /\ job_id # Nothing /\ Len(job_ids) = 2
    /\ \E e \in output_entries : int(e) = Nothing
    /\ \E e \in output_entries : int(e) # Nothing /\ str(int(e)[1]) # e /\ int(e)[1] > 0
    /\ str(job_ids[1]) \in output_entries

----------------------------------------------------------------------------
(* Properties of the builders                                               *)

\* the commands the i-th call of call_methods appended
CommandsOf(i) == builder_calls[i].first .. builder_calls[i].last

\* the i-th call left the stage's pointer on the dump file it emitted
PointerOnOwnDump(i) ==
    \E k \in CommandsOf(i) :
        /\ lammps_commands[k].cmd = "dump"
        /\ lammps_commands[k].file.stage = builder_stage.stage_nbr
        /\ lammps_commands[k].file.substage = builder_calls[i].before
        /\ builder_calls[i].last_lammpstrj_file = lammps_commands[k].file

\* C18: after every call of a standard builder that emits a trajectory dump
\* (minimization, NVT, NPT, NVE, uniaxial deformation) the stage's
\* last_lammpstrj_file names the dump file that builder just emitted,
\* <stage>.<substage>_<type>.lammpstrj.
C18_PointerNamesLatestDump ==
    \A i \in 1..Len(builder_calls) :
        builder_calls[i].name \in DumpBuilders => PointerOnOwnDump(i)

\* the part of C18 the code keeps: the same for every dump builder but the
\* minimization, which leaves the pointer of the stage as it found it
C18_PointerNamesLatestDynamicsDump ==
    \A i \in 1..Len(builder_calls) :
        /\ builder_calls[i].name \in DumpBuilders \ {M_min} => PointerOnOwnDump(i)
        /\ builder_calls[i].name = M_min =>
              builder_calls[i].last_lammpstrj_file =
                 (IF i = 1 THEN None ELSE builder_calls[i - 1].last_lammpstrj_file)

\* the command that deletes what a command defines
Deletes(c) == IF c = "fix" THEN "unfix" ELSE "undump"

Defining == { k \in 1..Len(lammps_commands) : lammps_commands[k].cmd \in {"fix", "dump"} }

\* the definition at k is deleted at m
DeletedAt(k, m) ==
    /\ k < m
    /\ lammps_commands[m].cmd = Deletes(lammps_commands[k].cmd)
    /\ lammps_commands[m].id = lammps_commands[k].id

\* the definition at k is still active just before the command at n
ActiveBefore(k, n) == k < n /\ ~\E m \in (k + 1)..(n - 1) : DeletedAt(k, m)

\* C19: for any sequence of standard builder calls within a stage, every
\* fix ID and every dump ID a builder defines is followed, before that
\* builder returns, by an unfix or undump of the same ID; so no fix or dump
\* is active at a builder boundary and no ID is defined again while active.
C19_FixesAndDumpsDeletedByTheirBuilder ==
    /\ \A i \in 1..Len(builder_calls) :
          \A k \in CommandsOf(i) \cap Defining :
              \E m \in CommandsOf(i) : DeletedAt(k, m)
    /\ \A i \in 1..Len(builder_calls) :
          \A k \in Defining :
              k <= builder_calls[i].last =>
                 ~ActiveBefore(k, builder_calls[i].last + 1)
    /\ \A k, n \in Defining :
          (lammps_commands[k].cmd = lammps_commands[n].cmd
             /\ lammps_commands[k].id = lammps_commands[n].id)
          => ~ActiveBefore(k, n)

\* a stage of NPT, uniaxial deformation and NVT, whose builders define the
\* IDs 1 and 2 three times over, was built and its script written
C19_Witness ==
    /\ builder_pc = "written"
    /\ Len(builder_calls) = 3
    /\ builder_calls[1].name = M_npt
    /\ builder_calls[2].name = M_def
    /\ builder_calls[3].name = M_nvt
    /\ Cardinality({k \in Defining : lammps_commands[k].id = "1"
                                     /\ lammps_commands[k].cmd = "fix"}) = 3
    /\ \E k \in Defining : lammps_commands[k].id = "dfrm"

\* the commands of the i-th call that carry a <stage>.<substage> numbering:
\* the title of the substage and the files of its dump and fix ave/time
Numbered(i) == { k \in CommandsOf(i) : lammps_commands[k].file # None }

\* C20: within one LammpsStages instance substage_nbr starts at 1, every
\* standard builder call increases it by exactly 1, after all its commands
\* are appended, and a plain command leaves it unchanged; so no two
\* substages of a stage derive the same <stage>.<substage>_ prefix.
C20_SubstageCounter ==
    /\ builder_calls = <<>> => builder_stage.substage_nbr = 1
    /\ \A i \in 1..Len(builder_calls) :
          /\ builder_calls[i].before =
                (IF i = 1 THEN 1 ELSE builder_calls[i - 1].after)
          /\ builder_calls[i].name \in StandardBuilders =>
                builder_calls[i].after = builder_calls[i].before + 1
          /\ builder_calls[i].name \in PlainCommands =>
                builder_calls[i].after = builder_calls[i].before
          /\ \A k \in Numbered(i) :
                /\ lammps_commands[k].file.stage = builder_stage.stage_nbr
                /\ lammps_commands[k].file.substage = builder_calls[i].before
    /\ builder_calls # <<>> =>
          builder_stage.substage_nbr = builder_calls[Len(builder_calls)].after
    /\ \A i, j \in 1..Len(builder_calls) :
          (i # j /\ builder_calls[i].name \in StandardBuilders
                 /\ builder_calls[j].name \in StandardBuilders)
          => /\ builder_calls[i].before # builder_calls[j].before
             /\ \A k \in Numbered(i), m \in Numbered(j) :
                   lammps_commands[k].file.substage # lammps_commands[m].file.substage

\* a stage that starts with the initialization, holds a plain command and
\* ends with a minimization was built: only the plain command left the
\* counter alone, and the dump of the minimization has the last number used
C20_Witness ==
    /\ builder_pc = "written"
    /\ Len(builder_calls) = MaxMethods
    /\ builder_calls[1].name = M_init
    /\ \E i \in 2..Len(builder_calls) : builder_calls[i].name \in PlainCommands
    /\ builder_calls[Len(builder_calls)].name = M_min
    /\ builder_stage.substage_nbr = MaxMethods
    /\ \E k \in Defining : lammps_commands[k].file.substage = MaxMethods - 1

----------------------------------------------------------------------------
(* Properties of the scripts of the stages of a mixture                    *)

\* the commands the i-th call of call_methods appended
BlockOf(i) == SubSeq(lammps_commands, builder_calls[i].first, builder_calls[i].last)

\* the names of the variables the i-th call declared, in order
DeclaredBy(i) ==
    LET decl == SelectSeq(BlockOf(i), LAMBDA c : c.cmd = "variable")
    IN  [k \in 1..Len(decl) |-> decl[k].id]

\* the block the initialization builder appends for substage k of stage s in
\* a process that has run no builder before
FirstInitializationBlock(s, k) ==
    StandardInitializationSubstage_commands([stage_nbr |-> s, substage_nbr |-> k],
                                            DictOfVariables)

\* C21: the block a standard builder appends depends only on its own
\* parameters and the current (stage, substage) numbers: the Initialization
\* block of a stage, its variable declarations included, is the same
\* whatever builders ran earlier in the process for previous stages.
C21_InitializationBlockIndependentOfEarlierBuilders ==
    \A i \in 1..Len(builder_calls) :
        builder_calls[i].name = M_init =>
            BlockOf(i) = FirstInitializationBlock(builder_stage.stage_nbr,
                                                  builder_calls[i].before)

\* what the code keeps of C21: the Initialization block declares the
\* variables of the module's dictionary as it stands, those first that the
\* module defines, and every other builder's block is the one its parameters
\* and the numbers give
C21_InitializationDeclaresTheSharedDictionary ==
    \A i \in 1..Len(builder_calls) :
        /\ builder_calls[i].name = M_init =>
              /\ Len(DeclaredBy(i)) >= Len(DictOfVariables)
              /\ \A k \in 1..Len(DictOfVariables) :
                    DeclaredBy(i)[k] = DictOfVariables[k].name
              /\ \A k \in 1..Len(DeclaredBy(i)) :
                    \E d \in 1..Len(dict_of_variables) :
                        dict_of_variables[d].name = DeclaredBy(i)[k]
        /\ builder_calls[i].name \in StandardBuilders \ {M_init} =>
              BlockOf(i) = method_commands(
                              [stage_nbr |-> builder_stage.stage_nbr,
                               substage_nbr |-> builder_calls[i].before],
                              stage_dict.methods[i], <<>>)

\* the positions of the commands of a kind the i-th call appended
KindOf(i, cmd) == { k \in CommandsOf(i) : lammps_commands[k].cmd = cmd }

Least(S) == CHOOSE k \in S : \A m \in S : k <= m

\* the commands of the i-th call after its run command and before its first
\* unfix
AfterRunBeforeTeardown(i) ==
    SubSeq(lammps_commands, Least(KindOf(i, "run")) + 1, Least(KindOf(i, "unfix")) - 1)

\* the commands of the i-th call that resize the box or declare a variable
BoxCommands(i) == KindOf(i, "change_box") \cup KindOf(i, "variable")

\* the three box-resizing policies
KeepAsProduced == <<>>

CubicFromFinalBounds ==
    <<add_variable("lcubic", L_final), add_change_box(CubicBox)>>

CubicFromAveragedBounds ==
    <<add_variable("xloave", "f_3[1]"), add_variable("xhiave", "f_3[2]"),
      add_variable("yloave", "f_3[3]"), add_variable("yhiave", "f_3[4]"),
      add_variable("zloave", "f_3[5]"), add_variable("zhiave", "f_3[6]"),
      add_variable("lcubic", L_average),
      add_change_box(AveragedBox), add_change_box(CubicBox)>>

\* the box commands of the i-th call all lie after its one run command and
\* before its first unfix
BoxCommandsInPlace(i) ==
    /\ Cardinality(KindOf(i, "run")) = 1
    /\ \A k \in BoxCommands(i) :
          Least(KindOf(i, "run")) < k /\ k < Least(KindOf(i, "unfix"))

\* C25: for every (boxdims_changeto, set_cubic) configuration of the NPT
\* builder exactly one of the three box-resizing policies (keep as produced,
\* cubic box from the final bounds, cubic box from the time-averaged bounds)
\* is applied, once, with all its commands after the run command and before
\* the first unfix of the substage.
C25_ExactlyOneOfThreeBoxPolicies ==
    \A i \in 1..Len(builder_calls) :
        builder_calls[i].name = M_npt =>
            /\ BoxCommandsInPlace(i)
            /\ AfterRunBeforeTeardown(i) \in
                  {KeepAsProduced, CubicFromFinalBounds, CubicFromAveragedBounds}

\* what the code keeps of C25: the commands of add_custom_change_box for the
\* configuration are in that place, once; they are those of one of the three
\* policies unless the configuration is 'Computed rho(average)' without
\* set_cubic, which resizes the box to the averaged bounds and to no cube
C25_BoxCommandsAfterRunBeforeTeardown ==
    \A i \in 1..Len(builder_calls) :
        builder_calls[i].name = M_npt =>
            /\ BoxCommandsInPlace(i)
            /\ AfterRunBeforeTeardown(i) =
                  add_custom_change_box("3", stage_dict.methods[i].boxdims_changeto,
                                        stage_dict.methods[i].set_cubic)
            /\ (stage_dict.methods[i].boxdims_changeto = B_average
                  /\ ~stage_dict.methods[i].set_cubic)
               <=> AfterRunBeforeTeardown(i) \notin
                      {KeepAsProduced, CubicFromFinalBounds, CubicFromAveragedBounds}

\* the script of every stage built so far was written once, under the name
\* of its stage, after the last method of the stage and before its run
ScriptWrittenOnceBeforeRun ==
    /\ \A j \in 1..Len(script_files) : script_files[j].file = script_file_name(j)
    /\ \A j \in 1..Len(executed) : executed[j].stage = j
    /\ builder_pc = "calling" =>
          /\ Len(script_files) = builder_stage.stage_nbr - 1
          /\ Len(executed) = builder_stage.stage_nbr - 1
    /\ builder_pc = "written" =>
          /\ Len(builder_calls) = Len(stage_dict.methods)
          /\ Len(script_files) = builder_stage.stage_nbr
          /\ Len(executed) = builder_stage.stage_nbr - 1
    /\ builder_pc = "run" =>
          /\ Len(script_files) = builder_stage.stage_nbr
          /\ Len(executed) = builder_stage.stage_nbr

\* the arguments of the j-th command that name a script of a stage
ScriptArguments(j) ==
    { a \in 1..Len(executed[j].cmd) :
        \E n \in 1..MaxStages : executed[j].cmd[a] = script_file_name(n) }

\* C26: for every stage i and any configured run_command, exactly one script
\* file (stage_i.in) is written, once, after all the methods of the stage
\* and before the simulator is invoked, and the command executed for stage i
\* is the run command with the script-file name of that stage substituted in.
C26_ScriptWrittenOnceAndRunByItsName ==
    /\ ScriptWrittenOnceBeforeRun
    /\ \A j \in 1..Len(executed) :
          /\ ScriptArguments(j) # {}
          /\ \A a \in ScriptArguments(j) : executed[j].cmd[a] = script_files[j].file

\* what the code keeps of C26: the script is written once and in time, and
\* the command names the script of its stage when the configured command
\* holds the text "-in stage_1.in"; any other command is executed as typed
C26_ScriptWrittenOnceAndRunAsConfigured ==
    /\ ScriptWrittenOnceBeforeRun
    /\ \A j \in 1..Len(executed) :
          IF Contains(S_in_stage_1, run_command)
          THEN \A a \in ScriptArguments(j) : executed[j].cmd[a] = script_files[j].file
          ELSE executed[j].cmd = split(run_command, <<>>)

IsPrefix(a, b) == Len(a) <= Len(b) /\ SubSeq(b, 1, Len(a)) = a

\* a step of the builders leaves the script it found as a prefix of the
\* script it leaves, or starts the next stage with an empty script
ScriptOnlyAppended ==
    IF builder_stage'.stage_nbr = builder_stage.stage_nbr
    THEN IsPrefix(lammps_commands, lammps_commands')
    ELSE lammps_commands' = <<>>

\* the text of the last script file holds the entries of the script in the
\* order they were appended, one line break between two of them
WrittenInOrder ==
    builder_pc \in {"written", "run"} =>
        LET text == script_files[Len(script_files)].text
        IN  /\ Len(text) = (IF lammps_commands = <<>> THEN 0
                            ELSE 2 * Len(lammps_commands) - 1)
            /\ \A k \in 1..Len(lammps_commands) : text[2 * k - 1] = lammps_commands[k]
            /\ \A k \in 1..(Len(lammps_commands) - 1) : text[2 * k] = "\n"

\* C27: for every LammpsCommands operation and every standard builder the
\* script before it is a prefix of the script after it (entries are only
\* appended), each stage starts from an empty script, and write_script
\* writes the entries to the file of the stage in the appended order.
C27_ScriptAppendOnlyAndWrittenInOrder ==
    /\ [](builder_calls = <<>> => lammps_commands = <<>>)
    /\ [][ScriptOnlyAppended]_vars
    /\ []WrittenInOrder

\* the script of a second stage was written: it began empty after the first
\* stage had filled and written its own, and it holds other commands
C27_Witness ==
    /\ builder_pc = "written"
    /\ Len(script_files) = 2
    /\ builder_stage.stage_nbr = 2
    /\ Len(lammps_commands) > 8
    /\ script_files[1].text # script_files[2].text
    /\ \E i \in 1..Len(builder_calls) : builder_calls[i].name = M_def

----------------------------------------------------------------------------
(* Further properties of the job pipeline                                  *)

\* every simulator run of the job so far exited with code 0
EveryRunSucceeded == \A i \in Events("exit") : trace[i].b = 0

\* C23: for an accepted mixture, if every simulator invocation exits with
\* code 0, then for every list of stages assembled from the standard
\* substages (a stage whose only dump is that of a minimization included)
\* all configured stages are executed in order: the hand-off between stages
\* never fails for lack of a trajectory file pointer.
C23_HandOffNeverLacksPointer ==
    (InMixtureMode /\ EveryRunSucceeded) =>
        /\ ~(pc = "exited" /\ exit.type = "FileNotFoundError")
        /\ \A i \in Events("exec") :
              \A n \in 1..(trace[i].a - 1) :
                  \E j \in 1..(i - 1) : trace[j] = Ev("exec", n, 0)
        /\ (pc = "exited" /\ nbr_of_mixtures_accepted >= 1) =>
              Count("exec") = nbr_of_mixtures_accepted * Len(Stages)

\* what the code keeps of C23: the stages run in order, and the hand-off
\* fails only after a stage that ran no NVT, NPT, NVE or deformation, whose
\* pointer was therefore never assigned
C23_HandOffFailsOnlyAfterStageWithoutDynamics ==
    (InMixtureMode /\ EveryRunSucceeded) =>
        /\ \A i \in Events("exec") :
              \A n \in 1..(trace[i].a - 1) :
                  \E j \in 1..(i - 1) : trace[j] = Ev("exec", n, 0)
        /\ (pc = "exited" /\ exit.type = "FileNotFoundError") =>
              /\ previous_lammps_stage # Nothing
              /\ previous_lammps_stage[1].last_lammpstrj_file = None
              /\ \A m \in 1..Len(Stages[stage_nbr].methods) :
                    Stages[stage_nbr].methods[m] \notin {M_nvt, M_npt, M_nve, M_def}
        /\ (pc = "exited" /\ nbr_of_mixtures_accepted >= 1
              /\ exit.type # "FileNotFoundError") =>
              Count("exec") = nbr_of_mixtures_accepted * Len(Stages)

\* the backend process runs on until it exits: a mixture scoring and a
\* simulator invocation return
SpecLive == Init /\ [][Next]_vars /\ WF_vars(Next)

\* C24: in run mode 'mixture+pysimm+lammps' with number_of_trials >= 1 and
\* number_of_mixtures_needed >= 1, and each scoring and each simulator
\* invocation returning, run_trials always terminates, after at most
\* number_of_mixtures_needed x number_of_trials trial attempts.
C24_RunTrialsTerminatesWithinBudget ==
    /\ <>(InMixtureMode => pc = "exited")
    /\ [](InMixtureMode =>
             Count("Mixture") <=
                inputs.number_of_mixtures_needed * inputs.number_of_trials)
    /\ [][InMixtureMode =>
             \/ trial_i' = trial_i
             \/ trial_i' = trial_i + 1
             \/ trial_i' = 0 /\ nbr_of_mixtures_accepted' = nbr_of_mixtures_accepted + 1]_vars

\* a job that needed two mixtures ended after it had used every attempt of
\* its budget
C24_Witness ==
    /\ InMixtureMode
    /\ pc = "exited"
    /\ inputs.number_of_mixtures_needed = 2
    /\ inputs.number_of_trials >= 2
    /\ Count("Mixture") = inputs.number_of_mixtures_needed * inputs.number_of_trials
    /\ Count("rejected") >= 2

\* the backend is between the acceptance of a mixture and the end of its
\* last stage
StagesRunning ==
    pc \in {"generate_pysimm", "stage_loop", "call_methods", "lammps_run", "lammps_wait"}

\* C29: throughout a job the directories directly under output/<job_id>/
\* are exactly mixture_1 .. mixture_d for a d >= 0 that never decreases, and
\* while stages run d is the number of accepted mixtures; so the name
\* 'mixture_<number of directories>' of get_latest_mixture_folder_by_count
\* designates the directory of the most recently accepted mixture.
C29_MixtureDirectoriesCountAccepted ==
    /\ [](fs.mixtures = 1..Cardinality(fs.mixtures))
    /\ [][Cardinality(fs.mixtures') >= Cardinality(fs.mixtures)]_vars
    /\ [](StagesRunning =>
             /\ Cardinality(fs.mixtures) = nbr_of_mixtures_accepted
             /\ get_latest_mixture_folder_by_count(fs) = nbr_of_mixtures_accepted
             /\ get_latest_mixture_folder_by_count(fs) \in fs.mixtures
             /\ \A n \in fs.mixtures : n <= get_latest_mixture_folder_by_count(fs))

\* the stages of a second accepted mixture run while the job directory
\* holds mixture_1 and mixture_2
C29_Witness ==
    /\ pc = "lammps_wait"
    /\ nbr_of_mixtures_accepted = 2
    /\ fs.mixtures = {1, 2}
    /\ get_latest_mixture_folder_by_count(fs) = 2

-----------------------------------------------------------------------------
(* Placement of the molecules of a trial on the points of a Sobol sequence:
   backend_static_functions.generate_sobol_positions,
   Mixture.generate_sobol_positions and the trials of JobRunner.run_trials.
   Lengths are whole numbers of angstroms and coordinates are kept in eighths
   of an angstrom, so that the products with the unit points are exact.  The
   source keeps three lists sobol_x, sobol_y, sobol_z; here a point is the
   triple of their entries at one index. *)
MaxMols == 3
MaxBox == 3
MaxPlaceTrials == 2

\* sobol_seq (third party): the points of the three-dimensional Sobol
\* sequence at the indices 0, 1, 2, ... in eighths of the unit interval
SobolEighths ==
    << <<0, 0, 0>>, <<4, 4, 4>>, <<6, 2, 6>>, <<2, 6, 2>>,
       <<3, 3, 5>>, <<7, 7, 1>>, <<5, 1, 3>>, <<1, 5, 7>> >>

\* i4_sobol_generate(dim_num, n): the n points from the index skip on; the
\* call passes no seed and no state is kept between two calls
i4_sobol_generate(dim_num, n, skip) ==
    [j \in 1..n |-> SubSeq(SobolEighths[j + skip], 1, dim_num)]

\* backend_static_functions.generate_sobol_positions
generate_sobol_positions(num_points, dims, skip) ==
    LET sobol_points == i4_sobol_generate(3, num_points, skip)
    IN  [j \in 1..num_points |-> [i \in 1..3 |-> sobol_points[j][i] * dims[i]]]

\* the box_dims argument of Mixture.generate_sobol_positions
sampler_box(dims, offset) == <<dims[1], dims[2], dims[3] - offset>>

\* the shift of sobol_z by layer_offset / 2 (4 eighths for every half unit)
shift_z(points, offset) ==
    [j \in DOMAIN points |->
        <<points[j][1], points[j][2], points[j][3] + 4 * offset>>]

\* Mixture.generate_sobol_positions
Mixture_generate_sobol_positions ==
    /\ sampler_calls' = Append(sampler_calls,
           [num_points |-> nbr_of_mols,
            box_dims |-> sampler_box(box_dims, layer_offset)])
    /\ sobol' = shift_z(generate_sobol_positions(nbr_of_mols,
                            sampler_box(box_dims, layer_offset), sobol_skip),
                        layer_offset)

\* Mixture(): the constructor generates the points of the new mixture
place_Mixture ==
    /\ place_pc = "trial"
    /\ Mixture_generate_sobol_positions
    /\ place_pc' = "constructed"
    /\ UNCHANGED <<nbr_of_mols, box_dims, layer_offset, sobol_skip, placements>>
    /\ UNCHANGED <<jobVars, trajVars, guiVars, mixVars, buildVars, progVars,
                   idVars, raceVars>>

\* JobRunner.generate_mixture: the points are generated again, the molecules
\* are translated to them and the overlap energy decides on the mixture
place_generate_mixture(accepted) ==
    /\ place_pc = "constructed"
    /\ Mixture_generate_sobol_positions
    /\ placements' = Append(placements,
                            [points |-> sobol', accepted |-> accepted])
    /\ place_pc' = IF accepted THEN "accepted"
                   ELSE IF Len(placements') < MaxPlaceTrials THEN "trial"
                   ELSE "exhausted"
    /\ UNCHANGED <<nbr_of_mols, box_dims, layer_offset, sobol_skip>>
    /\ UNCHANGED <<jobVars, trajVars, guiVars, mixVars, buildVars, progVars,
                   idVars, raceVars>>

LayerOffsets == {0, 2, 4}

InitPlace ==
    /\ inputs = CHOOSE i \in Inputs : TRUE
    /\ pc = "main"
    /\ trial_i = 1
    /\ nbr_of_mixtures_accepted = 0
    /\ stage_nbr = 0
    /\ lammps_stage = Nothing
    /\ previous_lammps_stage = Nothing
    /\ sim = NoSim
    /\ fs = EmptyDir
    /\ exit = Running
    /\ trace = <<>>
    /\ TrajOff
    /\ GuiOff
    /\ MixOff
    /\ BuildOff
    /\ ProgOff
    /\ IdOff
    /\ RaceOff
    /\ nbr_of_mols \in 1..MaxMols
    /\ \E xy \in 1..MaxBox, z \in 1..MaxBox : box_dims = <<xy, xy, z>>
    /\ layer_offset \in LayerOffsets
    /\ sobol_skip \in {0, 1}
    /\ sobol = <<>>
    /\ sampler_calls = <<>>
    /\ placements = <<>>
    /\ place_pc = "trial"

NextPlace ==
    \/ place_Mixture
    \/ \E accepted \in BOOLEAN : place_generate_mixture(accepted)

SpecPlace == InitPlace /\ [][NextPlace]_vars

\* C22: after a rejected trial the next trial is placed on a different sequence
\* of points than the rejected one
C22_NextTrialUsesOtherPoints ==
    \A k \in 1..(Len(placements) - 1) :
        ~placements[k].accepted =>
            placements[k + 1].points # placements[k].points

\* every trial of a run is placed on the same sequence of points
C22_EveryTrialUsesTheSamePoints ==
    \A k, l \in 1..Len(placements) :
        placements[k].points = placements[l].points

\* the z coordinates (in eighths) of the points of a trial lie inside the skin
\* margins and inside the box
InsideSkin(points) ==
    \A j \in DOMAIN points :
        /\ 4 * layer_offset <= points[j][3]
        /\ points[j][3] <= 8 * box_dims[3] - 4 * layer_offset
        /\ 0 <= points[j][3]
        /\ points[j][3] <= 8 * box_dims[3]

SamplerAskedAsConfigured ==
    \A c \in 1..Len(sampler_calls) :
        /\ sampler_calls[c].num_points = nbr_of_mols
        /\ sampler_calls[c].box_dims =
               <<box_dims[1], box_dims[2], box_dims[3] - layer_offset>>

\* C30: in every trial the sampler is asked for nbr_of_mols points in the box
\* shortened by layer_offset along z, and every assigned point has
\* layer_offset/2 <= z <= box_z - layer_offset/2 and 0 <= z <= box_z
C30_AssignedPointsInsideSkinAndBox ==
    /\ SamplerAskedAsConfigured
    /\ \A k \in 1..Len(placements) :
           /\ Len(placements[k].points) = nbr_of_mols
           /\ InsideSkin(placements[k].points)

\* the same, for the boxes that are at least layer_offset long along z; in a
\* shorter box the points lie between box_z - layer_offset/2 and layer_offset/2
C30_AssignedPointsInsideSkinOfLongBox ==
    /\ SamplerAskedAsConfigured
    /\ \A k \in 1..Len(placements) :
           /\ Len(placements[k].points) = nbr_of_mols
           /\ box_dims[3] >= layer_offset => InsideSkin(placements[k].points)
           /\ box_dims[3] < layer_offset =>
                  \A j \in DOMAIN placements[k].points :
                      /\ placements[k].points[j][3] <= 4 * layer_offset
                      /\ placements[k].points[j][3]
                             >= 8 * box_dims[3] - 4 * layer_offset

-----------------------------------------------------------------------------
(* Concurrent submissions: several front ends (or command lines) submit jobs
   while the backends of earlier submissions are starting.  output_entries is
   the shared listing of output/; dir_ops records which job did what to which
   job directory.  Job 0 stands for the jobs that ended before the first
   submission. *)
RaceNames == {str(1), str(2), <<"a">>}

RaceListings == UpToK(RaceNames, MaxEntries)

IdleSubmission == [pc |-> "idle", job_id |-> Nothing]

DirOp(s, dir, op) == [job |-> s, dir |-> dir, op |-> op]

\* os.makedirs(..., exist_ok=True) would take the directory of another job
makedirs_exist_ok(dir, entries) == FALSE

\* os.makedirs(output/<id>, exist_ok=False) raises FileExistsError when the
\* directory exists; test and creation are one system call (mkdir)
makedirs_raises(dir, entries) == dir \in entries

\* what a step of a submission leaves alone
RaceFrame ==
    /\ UNCHANGED <<job_id, job_ids>>
    /\ UNCHANGED <<jobVars, trajVars, guiVars, mixVars, buildVars, progVars,
                   placeVars>>

\* BackendConnector.run: get_next_job_id lists output/, then the inputs are
\* written and the backend is started with --id <job_id>
race_BackendConnector_run(s) ==
    /\ RaceFrame
    /\ submissions[s].pc = "idle"
    /\ submissions' = [submissions EXCEPT
           ![s] = [pc |-> "started",
                   job_id |-> Some(str(next_job_id(output_entries)))]]
    /\ UNCHANGED <<output_entries, dir_ops>>

\* python main.py --id <id> from a command line
race_main(s, id) ==
    /\ RaceFrame
    /\ submissions[s].pc = "idle"
    /\ submissions' = [submissions EXCEPT
           ![s] = [pc |-> "started", job_id |-> Some(id)]]
    /\ UNCHANGED <<output_entries, dir_ops>>

\* JobRunner.__init__: os.makedirs first
race_JobRunner_makedirs(s) ==
    /\ RaceFrame
    /\ submissions[s].pc = "started"
    /\ LET dir == submissions[s].job_id[1]
       IN  IF makedirs_raises(dir, output_entries)
           THEN /\ submissions' = [submissions EXCEPT
                                       ![s].pc = "FileExistsError"]
                /\ UNCHANGED <<output_entries, dir_ops>>
           ELSE /\ submissions' = [submissions EXCEPT ![s].pc = "made"]
                /\ output_entries' = output_entries \cup {dir}
                /\ dir_ops' = dir_ops \cup {DirOp(s, dir, "makedirs")}

\* JobRunner.__init__: create_log_file, and the first line logged by main()
race_create_log_file(s) ==
    /\ RaceFrame
    /\ submissions[s].pc = "made"
    /\ submissions' = [submissions EXCEPT ![s].pc = "initialised"]
    /\ dir_ops' = dir_ops \cup {DirOp(s, submissions[s].job_id[1], "log")}
    /\ UNCHANGED output_entries

\* JobRunner.run: clear_folder
race_clear_folder(s) ==
    /\ RaceFrame
    /\ submissions[s].pc = "initialised"
    /\ submissions' = [submissions EXCEPT ![s].pc = "cleared"]
    /\ dir_ops' = dir_ops \cup {DirOp(s, submissions[s].job_id[1], "clear")}
    /\ UNCHANGED output_entries

\* JobRunner.run: run_trials writes the mixtures and the stages of the job
race_run_trials(s) ==
    /\ RaceFrame
    /\ submissions[s].pc = "cleared"
    /\ submissions' = [submissions EXCEPT ![s].pc = "finished"]
    /\ dir_ops' = dir_ops \cup {DirOp(s, submissions[s].job_id[1], "write")}
    /\ UNCHANGED output_entries

InitRace ==
    /\ inputs = CHOOSE i \in Inputs : TRUE
    /\ pc = "main"
    /\ trial_i = 1
    /\ nbr_of_mixtures_accepted = 0
    /\ stage_nbr = 0
    /\ lammps_stage = Nothing
    /\ previous_lammps_stage = Nothing
    /\ sim = NoSim
    /\ fs = EmptyDir
    /\ exit = Running
    /\ trace = <<>>
    /\ TrajOff
    /\ GuiOff
    /\ MixOff
    /\ BuildOff
    /\ ProgOff
    /\ PlaceOff
    /\ job_id = Nothing
    /\ job_ids = <<>>
    /\ output_entries \in RaceListings
    /\ dir_ops = {DirOp(0, dir, "makedirs") : dir \in output_entries}
    /\ submissions = [s \in 1..MaxJobs |-> IdleSubmission]

NextRace ==
    \/ \E s \in 1..MaxJobs : race_BackendConnector_run(s)
    \/ \E s \in 1..MaxJobs, id \in RaceNames : race_main(s, id)
    \/ \E s \in 1..MaxJobs : race_JobRunner_makedirs(s)
    \/ \E s \in 1..MaxJobs : race_create_log_file(s)
    \/ \E s \in 1..MaxJobs : race_clear_folder(s)
    \/ \E s \in 1..MaxJobs : race_run_trials(s)

SpecRace == InitRace /\ [][NextRace]_vars

\* two submissions were given the same job id
SameIdGiven ==
    \E s, t \in DOMAIN submissions :
        /\ s # t
        /\ submissions[s].job_id # Nothing
        /\ submissions[s].job_id = submissions[t].job_id

\* C28: under any interleaving of the submissions, also when two of them are
\* given the same job id, at most one backend job ever runs in a job
\* directory: a backend started on an existing directory fails with
\* FileExistsError and has neither cleared nor written anything in it.
C28_AtMostOneBackendPerJobDirectory ==
    /\ \A a, b \in dir_ops : a.dir = b.dir => a.job = b.job
    /\ \A s \in DOMAIN submissions :
           submissions[s].pc = "FileExistsError" =>
               /\ \A a \in dir_ops : a.job # s
               /\ \E a \in dir_ops :
                      a.dir = submissions[s].job_id[1] /\ a.job # s
    /\ \A s \in DOMAIN submissions :
           submissions[s].pc \in {"made", "initialised", "cleared", "finished"} =>
               \A a \in dir_ops :
                   a.dir = submissions[s].job_id[1] => a.job = s

\* two submissions were given one id before its directory existed; one of
\* them has cleared the directory and the other has failed at start-up
C28_Witness ==
    \E s, t \in DOMAIN submissions :
        /\ s # t
        /\ submissions[s].job_id = submissions[t].job_id
        /\ submissions[s].pc \in {"cleared", "finished"}
        /\ submissions[t].pc = "FileExistsError"
        /\ DirOp(s, submissions[s].job_id[1], "clear") \in dir_ops

====
